---------------------------- MODULE Spec2Model ----------------------------
(***************************************************************************)
(* Model of the enrichment engine of paper_fetch                           *)
(* (src/enrich_with_semantic_scholar.py, driven by src/run_enrich.py).     *)
(*                                                                         *)
(* Strings are sequences of one-character strings, so that strip(),        *)
(* int(), str() and the affiliation serialisation are computed and not     *)
(* assumed.  Time is counted in tenths of a second.  The clock is kept     *)
(* relative to the governor's stamp: time_since_last_request is            *)
(* time.time() - self.last_request_time, saturated at MaxElapsed (the code *)
(* only compares that difference with 1.1 s).  Statements other than       *)
(* sleeps and HTTP requests take no time.                                  *)
(***************************************************************************)
EXTENDS Integers, Sequences, FiniteSets, TLC

(***************************************************************************)
(* Bounds of the model.                                                    *)
(***************************************************************************)
MaxPapers == 2
MaxJitter == 2
MaxElapsed == 12
LongPapers == 52
MaxCands == 3
MaxAuthors == 3

(***************************************************************************)
(* Program constants (tenths of a second, records).                        *)
(***************************************************************************)
MIN_INTERVAL == 11
COOLDOWN == 50
SAVE_EVERY == 50

(***************************************************************************)
(* Python values.                                                          *)
(***************************************************************************)
None == <<"None">>
Absent == <<"Absent">>
Empty == <<>>
IsStr(v) == v # None /\ v # Absent
Truthy(v) == v # None /\ v # Absent /\ v # Empty

Sat(t) == IF t > MaxElapsed THEN MaxElapsed ELSE t

IsSpace(c) == c = " "

RECURSIVE LStrip(_)
LStrip(s) ==
    IF s = <<>> THEN <<>>
    ELSE IF IsSpace(Head(s)) THEN LStrip(Tail(s)) ELSE s

RECURSIVE RStrip(_)
RStrip(s) ==
    IF s = <<>> THEN <<>>
    ELSE IF IsSpace(s[Len(s)]) THEN RStrip(SubSeq(s, 1, Len(s) - 1)) ELSE s

Strip(s) == RStrip(LStrip(s))

Digits == <<"0", "1", "2", "3", "4", "5", "6", "7", "8", "9">>
IsDigit(c) == \E d \in 1..10 : Digits[d] = c
DigitVal(c) == (CHOOSE d \in 1..10 : Digits[d] = c) - 1

RECURSIVE DigitsVal(_)
DigitsVal(s) ==
    IF s = <<>> THEN 0
    ELSE 10 * DigitsVal(SubSeq(s, 1, Len(s) - 1)) + DigitVal(s[Len(s)])

AllDigits(s) == s # <<>> /\ \A i \in 1..Len(s) : IsDigit(s[i])

\* int(s) for a str s: [ok |-> FALSE] stands for ValueError.
PyInt(s) ==
    LET t == Strip(s)
        signed == t # <<>> /\ Head(t) \in {"-", "+"}
        body == IF signed THEN Tail(t) ELSE t
    IN  IF AllDigits(body)
        THEN [ok |-> TRUE,
              v |-> IF signed /\ Head(t) = "-" THEN 0 - DigitsVal(body)
                    ELSE DigitsVal(body)]
        ELSE [ok |-> FALSE, v |-> 0]

RECURSIVE NatStr(_)
NatStr(n) ==
    IF n < 10 THEN <<Digits[n + 1]>>
    ELSE NatStr(n \div 10) \o <<Digits[(n % 10) + 1]>>

\* str(n) for an int n, as csv.DictWriter renders a number.
PyStr(n) == IF n < 0 THEN <<"-">> \o NatStr(0 - n) ELSE NatStr(n)


(***************************************************************************)
(* Records.  A row read by csv.DictReader has a cell per column: a str,    *)
(* None (a row shorter than the header) or Absent (no such column).  In    *)
(* memory citationCount is an int once loaded.  extra is the cell of a     *)
(* column beyond the seven the program names.                              *)
(***************************************************************************)
NoCap == 0 - 1

Get(v, default) == IF v = Absent THEN default ELSE v

\* LoadCitation with a bug: a cell int() cannot read counts as 1.
LoadCitationOne(c) ==
    IF c = Absent \/ c = None THEN 0
    ELSE LET t == Strip(c)
         IN  IF t = <<>> THEN 0
             ELSE IF PyInt(t).ok THEN PyInt(t).v ELSE 1

\* enrich_csv, lines 390-406: the citationCount cell made an int.
LoadCitation(c) ==
    IF c = Absent \/ c = None THEN 0
    ELSE LET t == Strip(c)
         IN  IF t = <<>> THEN 0
             ELSE IF PyInt(t).ok THEN PyInt(t).v ELSE 0

\* enrich_csv, lines 387-408, for one row.
LoadRow(row) ==
    [title |-> row.title, authors |-> row.authors,
     conference |-> row.conference, year |-> row.year,
     abstract |-> Get(row.abstract, Empty),
     citationCount |-> LoadCitation(row.citationCount),
     affiliations |-> Get(row.affiliations, Empty),
     extra |-> row.extra]

\* The coercion repeated at lines 325-332, 414-421 and 447-454, on an int.
CoerceCount(c) == IF c # 0 THEN c ELSE 0

\* What csv.DictWriter writes for a value: None is written as ''.
Cell(v) == IF v = None \/ v = Absent THEN Empty ELSE v

\* FormatRow with a bug: the year is not written.
FormatRowBlankYear(paper) ==
    [title |-> Cell(paper.title), authors |-> Cell(paper.authors),
     conference |-> Cell(paper.conference), year |-> Empty,
     abstract |-> Cell(paper.abstract),
     citationCount |-> PyStr(CoerceCount(paper.citationCount)),
     affiliations |-> Cell(paper.affiliations),
     extra |-> Absent]

\* _save_progress, lines 321-342: the row written for one paper.  Only the
\* seven fieldnames are written: the file has no other column.
FormatRow(paper) ==
    [title |-> Cell(paper.title), authors |-> Cell(paper.authors),
     conference |-> Cell(paper.conference), year |-> Cell(paper.year),
     abstract |-> Cell(paper.abstract),
     citationCount |-> PyStr(CoerceCount(paper.citationCount)),
     affiliations |-> Cell(paper.affiliations),
     extra |-> Absent]

FormatAll(ps) == [i \in 1..Len(ps) |-> FormatRow(ps[i])]

\* A file: whether the header line is there, and the rows after it.
NoFile == [exists |-> FALSE, header |-> FALSE, rows |-> <<>>]
Truncated == [exists |-> TRUE, header |-> FALSE, rows |-> <<>>]
FileOf(rows) == [exists |-> TRUE, header |-> TRUE, rows |-> rows]

\* x.strip() raises AttributeError on None.
StripRaises(v) == v = None
StripOf(v) == Strip(Get(v, Empty))

\* has_data, lines 412-422 (the pre-scan of the prefix).
HasDataRaises(paper) == StripRaises(paper.abstract)

\* HasData with a bug: the abstract is not stripped.
HasDataNoStrip(paper) ==
    Get(paper.abstract, Empty) # Empty \/ CoerceCount(paper.citationCount) > 0

HasData(paper) ==
    StripOf(paper.abstract) # Empty \/ CoerceCount(paper.citationCount) > 0

RECURSIVE CountHasData(_, _)
CountHasData(ps, n) ==
    IF n = 0 THEN 0
    ELSE CountHasData(ps, n - 1) + (IF HasData(ps[n]) THEN 1 ELSE 0)

Min(a, b) == IF a < b THEN a ELSE b

\* enrich_csv, lines 374-380.
EndIdx(start_from, max_papers, total) ==
    IF max_papers # NoCap /\ max_papers # 0
    THEN Min(start_from + max_papers, total)
    ELSE total

\* enrich_csv, lines 431-434: reading the four identity cells.
CellsRaise(paper) ==
    \/ StripRaises(paper.title)
    \/ StripRaises(paper.authors)
    \/ StripRaises(paper.year)
    \/ StripRaises(paper.conference)

\* StrictSkip with a bug: the row is copied through only when it also has
\* affiliations.
StrictSkipNeedsAffiliations(skip_existing_abstract, paper) ==
    /\ skip_existing_abstract
    /\ StripOf(paper.abstract) # Empty
    /\ Truthy(paper.affiliations)

\* enrich_csv, lines 437-439: the skip-if-abstract-present test.
StrictSkip(skip_existing_abstract, paper) ==
    skip_existing_abstract /\ StripOf(paper.abstract) # Empty

\* DefaultSkip with a bug: the abstract is not stripped.
DefaultSkipNoStrip(get_affiliations, paper) ==
    /\ (Get(paper.abstract, Empty) # Empty \/ CoerceCount(paper.citationCount) > 0)
    /\ (~get_affiliations \/ Truthy(paper.affiliations))

\* DefaultSkip with a bug: affiliations are required also when they are not
\* fetched.
DefaultSkipNeedsAffiliations(get_affiliations, paper) ==
    /\ (StripOf(paper.abstract) # Empty \/ CoerceCount(paper.citationCount) > 0)
    /\ Truthy(paper.affiliations)

\* enrich_csv, lines 456-458: the skip test of the default path.
DefaultSkip(get_affiliations, paper) ==
    /\ (StripOf(paper.abstract) # Empty \/ CoerceCount(paper.citationCount) > 0)
    /\ (~get_affiliations \/ Truthy(paper.affiliations))

(***************************************************************************)
(* Match Resolver: search_paper, lines 59-128.                             *)
(***************************************************************************)
UpperCase == <<"A", "B", "C", "D", "E", "F", "G", "H", "I", "J", "K", "L", "M",
               "N", "O", "P", "Q", "R", "S", "T", "U", "V", "W", "X", "Y", "Z">>
LowerCase == <<"a", "b", "c", "d", "e", "f", "g", "h", "i", "j", "k", "l", "m",
               "n", "o", "p", "q", "r", "s", "t", "u", "v", "w", "x", "y", "z">>

LowerChar(c) ==
    IF \E k \in 1..26 : UpperCase[k] = c
    THEN LowerCase[CHOOSE k \in 1..26 : UpperCase[k] = c]
    ELSE c

Lower(s) == [i \in 1..Len(s) |-> LowerChar(s[i])]

\* a in b
Contains(a, b) ==
    \E i \in 0..(Len(b) - Len(a)) : SubSeq(b, i + 1, i + Len(a)) = a

QUERY_MAX == 200
SEARCH_LIMIT == 10

RECURSIVE RStripPunct(_)
RStripPunct(s) ==
    IF s = <<>> THEN <<>>
    ELSE IF s[Len(s)] \in {".", ",", ";", ":", "!", "?"}
         THEN RStripPunct(SubSeq(s, 1, Len(s) - 1))
         ELSE s

\* Query with a bug: the query is not cut to QUERY_MAX characters.
QueryNoTruncate(title) == RStripPunct(title)

\* search_paper, lines 67-70: the query sent for a title.
Query(title) ==
    LET q == RStripPunct(title)
    IN  IF Len(q) > QUERY_MAX THEN SubSeq(q, 1, QUERY_MAX) ELSE q

Max(a, b) == IF a > b THEN a ELSE b

\* ScanMatch with a bug: a candidate that ties with the best score replaces
\* the best match.
RECURSIVE ScanMatchTiesLast(_, _, _, _, _, _)
ScanMatchTiesLast(title_lower, cands, k, best, num, den) ==
    IF k > Len(cands) THEN best
    ELSE LET paper_title == Strip(Lower(Get(cands[k].title, Empty)))
         IN  IF title_lower = paper_title THEN k
             ELSE IF Contains(title_lower, paper_title) \/ Contains(paper_title, title_lower)
             THEN LET n == Min(Len(title_lower), Len(paper_title))
                      d == Max(Len(title_lower), Len(paper_title))
                  IN  IF n * den >= num * d
                      THEN ScanMatchTiesLast(title_lower, cands, k + 1, k, n, d)
                      ELSE ScanMatchTiesLast(title_lower, cands, k + 1, best, num, den)
             ELSE ScanMatchTiesLast(title_lower, cands, k + 1, best, num, den)

\* search_paper, lines 94-112: the scan for best_match.  The result is the
\* position of best_match in the list, 0 for no best_match; the score is the
\* fraction num/den.
RECURSIVE ScanMatch(_, _, _, _, _, _)
ScanMatch(title_lower, cands, k, best, num, den) ==
    IF k > Len(cands) THEN best
    ELSE LET paper_title == Strip(Lower(Get(cands[k].title, Empty)))
         IN  IF title_lower = paper_title THEN k
             ELSE IF Contains(title_lower, paper_title) \/ Contains(paper_title, title_lower)
             THEN LET n == Min(Len(title_lower), Len(paper_title))
                      d == Max(Len(title_lower), Len(paper_title))
                  IN  IF n * den > num * d
                      THEN ScanMatch(title_lower, cands, k + 1, k, n, d)
                      ELSE ScanMatch(title_lower, cands, k + 1, best, num, den)
             ELSE ScanMatch(title_lower, cands, k + 1, best, num, den)

\* BestMatch with a bug: no candidate is ever matched.
BestMatchNone(title, cands) == 0

BestMatch(title, cands) == ScanMatch(Strip(Lower(title)), cands, 1, 0, 0, 1)

\* SelectPaperId with a bug: the first-ranked candidate is always taken.
SelectPaperIdFirstRanked(title, cands) ==
    IF cands = <<>> THEN None ELSE cands[1].paperId

\* search_paper, lines 86-128, on a 200 response: the paperId whose details
\* are fetched, or None when search_paper returns None.
SelectPaperId(title, cands) ==
    IF cands = <<>> THEN None
    ELSE LET b == BestMatch(title, cands)
         IN  IF b # 0 /\ Truthy(cands[b].paperId) THEN cands[b].paperId
             ELSE IF Truthy(cands[1].paperId) THEN cands[1].paperId
             ELSE None

\* A candidate title of None makes .lower() raise inside the try (line 100).
ScanRaises(cands) == \E k \in 1..Len(cands) : cands[k].title = None

(***************************************************************************)
(* Detail and affiliation fetch: get_paper_details, enrich_paper.          *)
(***************************************************************************)
\* NotFound with a bug: 'not found' carries the data of some paper.
NotFoundWithData ==
    [found |-> TRUE, abstract |-> <<"y">>, citationCount |-> <<"5">>,
     has_authors |-> FALSE, authors |-> <<>>,
     has_awa |-> FALSE, authorsWithAffiliations |-> <<>>]

\* What search_paper returns: None (found = FALSE) or the paper_data dict.
\* has_authors and has_awa say whether the keys 'authors' and
\* 'authorsWithAffiliations' are in the dict.
NotFound ==
    [found |-> FALSE, abstract |-> Absent, citationCount |-> Absent,
     has_authors |-> FALSE, authors |-> <<>>,
     has_awa |-> FALSE, authorsWithAffiliations |-> <<>>]

\* paper_data of a 200 response, before the affiliation loop.
PaperData(body) ==
    [found |-> TRUE, abstract |-> body.abstract,
     citationCount |-> body.citationCount,
     has_authors |-> body.has_authors, authors |-> body.authors,
     has_awa |-> FALSE, authorsWithAffiliations |-> <<>>]

\* `if paper_info:` is false for None and for an empty dict.
InfoTruthy(info) ==
    /\ info.found
    /\ ~(/\ info.abstract = Absent /\ info.citationCount = Absent
         /\ ~info.has_authors /\ ~info.has_awa)

\* AuthorsToProcess with a bug: the cap is ignored.
AuthorsToProcessAll(max_authors, n) == n

\* get_paper_details, lines 210-213.
AuthorsToProcess(max_authors, n) ==
    IF max_authors # NoCap THEN Min(max_authors, n) ELSE n

RECURSIVE Join(_, _)
Join(parts, sep) ==
    IF parts = <<>> THEN <<>>
    ELSE IF Len(parts) = 1 THEN parts[1]
    ELSE parts[1] \o sep \o Join(Tail(parts), sep)

\* enrich_paper, lines 298-308: one author's segment.
AffStr(a) ==
    IF a.has_affiliations
    THEN IF Truthy(a.affiliations)
         THEN a.name \o <<":", " ">> \o Join(a.affiliations, <<";", " ">>)
         ELSE a.name \o <<":", " ", "(", "wu", ")">>
    ELSE a.name

\* enrich_paper, lines 291-313.
Serialize(awa) ==
    Join([i \in 1..Len(awa) |-> AffStr(awa[i])], <<" ", "|", " ">>)

DefaultResult ==
    [raised |-> FALSE, abstract |-> Empty, citationCount |-> 0,
     affiliations |-> Empty]

\* EnrichPaper with a bug: a null abstract is passed through.
EnrichPaperKeepsNull(info) ==
    IF ~InfoTruthy(info) THEN DefaultResult
    ELSE LET c == info.citationCount
             bad == c # Absent /\ c # None /\ ~PyInt(c).ok
         IN  IF bad THEN [DefaultResult EXCEPT !.raised = TRUE]
             ELSE [raised |-> FALSE,
                   abstract |-> IF info.abstract = Absent THEN Empty ELSE info.abstract,
                   citationCount |-> IF c = Absent \/ c = None THEN 0 ELSE PyInt(c).v,
                   affiliations |-> IF info.has_awa
                                    THEN Serialize(info.authorsWithAffiliations)
                                    ELSE Empty]

\* enrich_paper, lines 272-315, given what search_paper returned.  raised
\* stands for the ValueError of int() at line 288.
EnrichPaper(info) ==
    IF ~InfoTruthy(info) THEN DefaultResult
    ELSE LET c == info.citationCount
             bad == c # Absent /\ c # None /\ ~PyInt(c).ok
         IN  IF bad THEN [DefaultResult EXCEPT !.raised = TRUE]
             ELSE [raised |-> FALSE,
                   abstract |-> IF info.abstract = Absent \/ info.abstract = None
                                THEN Empty ELSE info.abstract,
                   citationCount |-> IF c = Absent \/ c = None THEN 0 ELSE PyInt(c).v,
                   affiliations |-> IF info.has_awa
                                    THEN Serialize(info.authorsWithAffiliations)
                                    ELSE Empty]

\* MergeTarget with a bug: the failure branch leaves the affiliations of the
\* result in place of ''.
MergeTargetStaleAffiliations(result) ==
    IF ~result.raised /\ (result.abstract # Empty \/ result.citationCount > 0)
    THEN [abstract |-> result.abstract, citationCount |-> result.citationCount,
          affiliations |-> result.affiliations, outcome |-> "ENRICHED"]
    ELSE [abstract |-> Empty, citationCount |-> 0, affiliations |-> result.affiliations,
          outcome |-> "FAILED"]

\* MergeTarget with a bug: a record whose attempt found nothing is reset but
\* counted in no counter.
MergeTargetUncounted(result) ==
    IF ~result.raised /\ (result.abstract # Empty \/ result.citationCount > 0)
    THEN [abstract |-> result.abstract, citationCount |-> result.citationCount,
          affiliations |-> result.affiliations, outcome |-> "ENRICHED"]
    ELSE [abstract |-> Empty, citationCount |-> 0, affiliations |-> Empty,
          outcome |-> "PENDING"]

\* enrich_csv, lines 479-502: the three values assigned and the class.
MergeTarget(result) ==
    IF result.raised
    THEN [abstract |-> Empty, citationCount |-> 0, affiliations |-> Empty,
          outcome |-> "FAILED"]
    ELSE IF result.abstract # Empty \/ result.citationCount > 0
    THEN [abstract |-> result.abstract, citationCount |-> result.citationCount,
          affiliations |-> result.affiliations, outcome |-> "ENRICHED"]
    ELSE [abstract |-> Empty, citationCount |-> 0, affiliations |-> Empty,
          outcome |-> "FAILED"]

\* WaitTime with a bug: the interval of the docstring, one second.
WaitTimeOneSecond(since) ==
    IF since < MIN_INTERVAL - 1 THEN (MIN_INTERVAL - 1) - since ELSE 0

\* _wait_for_rate_limit, lines 37-39: the sleep requested.
WaitTime(since) == IF since < MIN_INTERVAL THEN MIN_INTERVAL - since ELSE 0

(***************************************************************************)
(* The environment: input rows and API responses.                          *)
(***************************************************************************)
Str(c) == <<c>>

RawRow(title, year) ==
    [title |-> title, authors |-> Str("A"), conference |-> Str("C"), year |-> year,
     abstract |-> Absent, citationCount |-> Absent, affiliations |-> Absent,
     extra |-> Absent]

FullRow(title, year, abstract, count, affiliations) ==
    [title |-> title, authors |-> Str("A"), conference |-> Str("C"), year |-> year,
     abstract |-> abstract, citationCount |-> count, affiliations |-> affiliations,
     extra |-> Absent]

Year == <<"2", "0", "2", "0">>

\* Rows of a four-column input (title, authors, conference, year); the
\* second is a row one cell short.
RawRows(title) == {RawRow(title, Year), RawRow(title, None)}

\* Rows of a seven-column input.
FullRows(title) ==
    {FullRow(title, Year, Str("x"), Str("3"), <<"P", ":", " ", "U">>),
     FullRow(title, Year, Str(" "), Str("0"), Str("P")),
     FullRow(title, Year, Str("x"), Empty, Empty),
     FullRow(title, Str("n"), Empty, Str("n"), Empty),
     FullRow(title, Empty, Empty, <<" ", "4">>, None),
     FullRow(title, Year, None, None, None)}

\* The rows of FullRows that carry data.
CoreRows(title) ==
    {FullRow(title, Year, Str("x"), Str("3"), <<"P", ":", " ", "U">>),
     FullRow(title, Year, Str(" "), Str("0"), Str("P")),
     FullRow(title, Year, Str("x"), Empty, Empty)}

Titles == <<Str("a"), Str("b"), <<"a", "b">>>>

\* The sequences of n rows, the i-th with the i-th title, for n in lengths.
RowSeqs(rowsOf(_), lengths) ==
    UNION {{r \in [1..n -> UNION {rowsOf(Titles[i]) : i \in 1..n}] :
                \A i \in 1..n : r[i] \in rowsOf(Titles[i])} : n \in lengths}

\* Every one-row input, and the longer inputs of raw rows and of rows with data.
Datasets ==
    RowSeqs(RawRows, 1..MaxPapers) \cup RowSeqs(FullRows, {1})
        \cup RowSeqs(CoreRows, 2..MaxPapers)

\* The enricher's settings: the author cap matters only with affiliations on.
Settings ==
    {[get_affiliations |-> FALSE, max_authors_for_affiliations |-> NoCap],
     [get_affiliations |-> TRUE, max_authors_for_affiliations |-> NoCap],
     [get_affiliations |-> TRUE, max_authors_for_affiliations |-> 1]}

Cand(id, title) == [paperId |-> id, title |-> title]
Author(id, name) == [authorId |-> id, name |-> name]

CandidateLists ==
    {<<>>,
     <<Cand(Str("p"), Str("A"))>>,
     <<Cand(Str("q"), <<"a", "b">>), Cand(Str("p"), Str("a"))>>,
     <<Cand(None, Str("b")), Cand(Str("q"), Str("z"))>>,
     <<Cand(Str("q"), None)>>}

HTTP_OK == 200
HTTP_RATE_LIMITED == 429

Resp(status, body) == [status |-> status, body |-> body]
\* 429, another non-2xx status, and no response at all (status 0: a timeout
\* or a network error, raised by requests.get).
FailureStatus == {HTTP_RATE_LIMITED, 500, 0}

SearchResponses ==
    {Resp(HTTP_OK, c) : c \in CandidateLists} \cup {Resp(st, <<>>) : st \in FailureStatus}

Body(abstract, count, authors) ==
    [json |-> TRUE, abstract |-> abstract, citationCount |-> count, has_authors |-> TRUE,
     authors |-> authors]

\* A body without the key 'authors'.
BodyNoAuthors(abstract, count) ==
    [json |-> TRUE, abstract |-> abstract, citationCount |-> count, has_authors |-> FALSE,
     authors |-> <<>>]

\* A body that is not JSON: response.json() raises (line 202).
NotJson == [BodyNoAuthors(Absent, Absent) EXCEPT !.json = FALSE]

DetailBodies ==
    {Body(Str("y"), Str("5"), <<Author(Str("1"), Str("P")), Author(None, Str("Q"))>>),
     Body(Str("y"), Str("0"), <<Author(Str("1"), Str("P")), Author(Str("2"), Str("Q"))>>),
     Body(None, None, <<Author(Str("1"), Str("P"))>>),
     Body(Str(" "), Str("0"), <<>>),
     BodyNoAuthors(Absent, Str("5")),
     Body(Str("y"), Str("n"), <<>>),
     BodyNoAuthors(Absent, Absent)}

DetailResponses ==
    {Resp(HTTP_OK, b) : b \in DetailBodies \cup {NotJson}}
        \cup {Resp(st, BodyNoAuthors(Absent, Absent)) : st \in FailureStatus}

AffiliationLists == {<<>>, <<Str("U")>>, <<Str("U"), Str("V")>>}

AuthorResponses ==
    {Resp(HTTP_OK, a) : a \in AffiliationLists} \cup {Resp(st, <<>>) : st \in FailureStatus}

\* The API as a fixed function of the request: a response for every search
\* query, paper id and author id.
SearchAll(resp) == [q \in {Titles[i] : i \in 1..3} |-> resp]
TwoCands == <<Cand(Str("q"), <<"a", "b">>), Cand(Str("p"), Str("a"))>>

SearchWorlds ==
    {SearchAll(Resp(HTTP_OK, TwoCands)),
     [SearchAll(Resp(HTTP_OK, TwoCands)) EXCEPT ![Str("b")] = Resp(HTTP_RATE_LIMITED, <<>>)]}

DetailWorlds ==
    {(Str("p") :> Resp(HTTP_OK, Body(Str("y"), Str("5"),
                                     <<Author(Str("1"), Str("P")), Author(None, Str("Q"))>>))
        @@ Str("q") :> Resp(HTTP_OK, Body(Str(" "), Str("0"), <<>>))),
     (Str("p") :> Resp(HTTP_OK, Body(None, None, <<Author(Str("1"), Str("P"))>>))
        @@ Str("q") :> Resp(HTTP_OK, Body(Str("y"), Str("0"),
                                          <<Author(Str("1"), Str("P")),
                                            Author(Str("2"), Str("Q"))>>))),
     (Str("p") :> Resp(HTTP_OK, Body(Str("y"), Str("n"), <<>>))
        @@ Str("q") :> Resp(500, BodyNoAuthors(Absent, Absent)))}

AuthorWorlds ==
    {(Str("1") :> Resp(HTTP_OK, <<Str("U"), Str("V")>>) @@ Str("2") :> Resp(HTTP_OK, <<>>)),
     (Str("1") :> Resp(HTTP_RATE_LIMITED, <<>>) @@ Str("2") :> Resp(HTTP_OK, <<Str("U")>>))}

Worlds == [search : SearchWorlds, detail : DetailWorlds, author : AuthorWorlds]
AnyWorld == CHOOSE w \in Worlds : TRUE

\* The flags the user passes to enrich_csv.
Flags == [skip_existing_abstract : BOOLEAN, max_papers : {NoCap, 0, 1}]

(***************************************************************************)
(* State.                                                                  *)
(***************************************************************************)
VARIABLES
    inputFile,      \* the input dataset: a file of rows as DictReader reads them
    outputFile,     \* the output destination, as it is on disk
    self,           \* the enricher: get_affiliations, max_authors_for_affiliations
    args,           \* enrich_csv's arguments of the current run
    env,            \* the environment: fixed (the API answers as world does), jitter
    flags,          \* the flags of every invocation: skip_existing_abstract, max_papers
    runsLeft,       \* invocations of enrich_csv still to come
    world,          \* the API as a function of the request, used when env.fixed
    papers,         \* the in-memory record sequence
    idx, end_idx, success_count, failed_count, skipped_count,
    pc,             \* where the run is
    saveRet,        \* where _save_progress returns to
    call,           \* locals of enrich_paper/search_paper/get_paper_details
    result,         \* what enrich_paper returned
    time_since_last_request,   \* time.time() - self.last_request_time, saturated
    gov,            \* _wait_for_rate_limit: slept, wait_time
    sinceIssue,     \* time since the last outbound request was issued, saturated
    acquired,       \* the governor was acquired since the last outbound request
    loaded,         \* papers as loaded by this run
    cls,            \* each record's class in this run
    hist,           \* this run: billed, raisedAt, interrupted, the merge under way
    prev            \* the previous run: how it ended, its arguments and output

vars == <<inputFile, outputFile, self, args, env, flags, runsLeft, world, papers, idx, end_idx,
          success_count, failed_count, skipped_count, pc, saveRet, call, result,
          time_since_last_request, gov, sinceIssue, acquired, loaded, cls, hist, prev>>

\* requests: the outbound requests of this enrich_paper call, in order.
\* query: the query string of the search request (line 75).
NoCall == [title |-> Empty, query |-> Empty, paper_id |-> None, paper_data |-> NotFound,
           aidx |-> 0, authors_with_affiliations |-> <<>>, requests |-> <<>>]

\* One outbound request and its answer: the endpoint, the status, the
\* position of the author it is for (0 for the other endpoints) and whether
\* the call failed (no 200, or a body the caller cannot read).
Req(site, status, pos, failed) ==
    [site |-> site, status |-> status, pos |-> pos, failed |-> failed]
GovIdle == [slept |-> FALSE, wait_time |-> 0]
NoArgs == [input |-> "I", start_from |-> 0, max_papers |-> NoCap,
           skip_existing_abstract |-> FALSE]
NoHist == [billed |-> {}, raisedAt |-> {}, interrupted |-> "no", crashAt |-> "no",
           since429 |-> COOLDOWN, merging |-> <<>>]
NoPrev == [pc |-> "idle", idx |-> 0, cls |-> <<>>, out |-> NoFile, args |-> NoArgs]

Terminal == {"done", "cancelled", "crashed", "aborted"}
AcquireSites == {"acq_search", "acq_match", "acq_detail", "acq_author"}
RequestSites == {"req_search", "req_detail", "req_author"}
SavePcs == {"save_open", "save_header", "save_row"}

InitWith(datasets, settings, flagset, fixed, worlds, jitters, runs) ==
    /\ inputFile \in {FileOf(rows) : rows \in datasets}
    /\ outputFile = NoFile
    /\ self \in settings
    /\ args = NoArgs
    /\ env \in [fixed : {fixed}, jitter : jitters]
    /\ flags \in flagset
    /\ runsLeft = runs
    /\ world \in worlds
    /\ papers = <<>>
    /\ idx = 0 /\ end_idx = 0
    /\ success_count = 0 /\ failed_count = 0 /\ skipped_count = 0
    /\ pc = "idle"
    /\ saveRet = "none"
    /\ call = NoCall
    /\ result = DefaultResult
    /\ time_since_last_request = MaxElapsed
    /\ gov = GovIdle
    /\ sinceIssue = MaxElapsed
    /\ acquired = FALSE
    /\ loaded = <<>>
    /\ cls = <<>>
    /\ hist = NoHist
    /\ prev = NoPrev

Init == InitWith(Datasets, Settings, Flags, FALSE, {AnyWorld}, {0}, 1)

(***************************************************************************)
(* enrich_csv: load, range, seeding (lines 365-426).                       *)
(***************************************************************************)
ReadRows(input) == IF input = "I" THEN inputFile.rows ELSE outputFile.rows

\* The pre-scan at line 424 raises when a prefix record's abstract is None.
PrescanRaises(ps, start_from) ==
    \E i \in 1..Min(start_from, Len(ps)) : HasDataRaises(ps[i])

\* The values of --start-from tried on a dataset of total records.
StartOffsets(total) == {k \in 0..total : k <= MaxPapers}

StartRun ==
    /\ pc \in Terminal \cup {"idle"}
    /\ runsLeft > 0
    /\ \E input \in {"I", "O"} :
         /\ input = "O" => outputFile.exists
         /\ \E start_from \in StartOffsets(Len(ReadRows(input))) :
              LET ps == [i \in 1..Len(ReadRows(input)) |-> LoadRow(ReadRows(input)[i])]
                  total == Len(ps)
                  seed == CountHasData(ps, Min(start_from, total))
                  raises == PrescanRaises(ps, start_from)
              IN  /\ args' = [input |-> input, start_from |-> start_from,
                              max_papers |-> flags.max_papers,
                              skip_existing_abstract |-> flags.skip_existing_abstract]
                  /\ papers' = ps
                  /\ loaded' = ps
                  /\ cls' = [i \in 1..total |-> "PENDING"]
                  /\ idx' = start_from
                  /\ end_idx' = EndIdx(start_from, flags.max_papers, total)
                  /\ success_count' = IF raises THEN 0 ELSE seed
                  /\ failed_count' = IF raises THEN 0 ELSE start_from - seed
                  /\ skipped_count' = 0
                  /\ pc' = IF raises THEN "crashed" ELSE "loop"
                  /\ hist' = [NoHist EXCEPT !.crashAt = IF raises THEN "prescan" ELSE "no"]
                  /\ prev' = [pc |-> pc, idx |-> idx, cls |-> cls, out |-> outputFile,
                              args |-> args]
    /\ runsLeft' = runsLeft - 1
    /\ saveRet' = "none"
    /\ call' = NoCall
    /\ result' = DefaultResult
    /\ time_since_last_request' = MaxElapsed
    /\ gov' = GovIdle
    /\ sinceIssue' = MaxElapsed
    /\ acquired' = FALSE
    /\ UNCHANGED <<inputFile, outputFile, self, env, flags, world>>

(***************************************************************************)
(* The loop head and the skip tests (lines 429-472).                       *)
(***************************************************************************)
VisitRaises(paper) ==
    \/ CellsRaise(paper)
    \/ StripRaises(paper.abstract)

\* AfterLoop with a bug: enrich_csv returns without the final save.
AfterLoopNoSave == "done"

\* After the for loop: the final _save_progress (line 529).
AfterLoop == "save_open"

Visit ==
    /\ pc = "loop"
    /\ IF idx >= end_idx
       THEN /\ pc' = AfterLoop
            /\ saveRet' = IF AfterLoop = "save_open" THEN "done" ELSE "none"
            /\ UNCHANGED <<idx, skipped_count, cls, call, hist>>
       ELSE LET paper == papers[idx + 1]
            IN  IF VisitRaises(paper)
                THEN /\ pc' = "crashed"
                     /\ hist' = [hist EXCEPT !.crashAt = "visit"]
                     /\ UNCHANGED <<idx, skipped_count, cls, call, saveRet>>
                ELSE IF StrictSkip(args.skip_existing_abstract, paper)
                        \/ DefaultSkip(self.get_affiliations, paper)
                THEN /\ skipped_count' = skipped_count + 1
                     /\ cls' = [cls EXCEPT ![idx + 1] = "SKIPPED"]
                     /\ idx' = idx + 1
                     /\ UNCHANGED <<pc, call, hist, saveRet>>
                ELSE /\ pc' = "acq_search"
                     /\ call' = [NoCall EXCEPT !.title = StripOf(paper.title)]
                     /\ UNCHANGED <<idx, skipped_count, cls, hist, saveRet>>
    /\ UNCHANGED <<inputFile, outputFile, self, args, env, flags, runsLeft, world, papers, end_idx,
                   success_count, failed_count, result, time_since_last_request, gov,
                   sinceIssue, acquired, loaded, prev>>

(***************************************************************************)
(* Rate governor: _wait_for_rate_limit (lines 34-41).                      *)
(***************************************************************************)
\* The time since the last 429 answer, t later, saturated at COOLDOWN.
Elapse429(since, t) == Min(COOLDOWN, since + t)

\* How long a sleep or a request may last beyond the minimum.
Delays == IF env.jitter = 0 THEN {0} ELSE 0..env.jitter \cup {MaxElapsed}

\* Lines 36-40: read the clock, sleep when the last stamp is too recent.
GovernorWait ==
    /\ pc \in AcquireSites
    /\ ~gov.slept
    /\ LET wait == WaitTime(time_since_last_request)
       IN  \E d \in Delays :
             LET passed == IF wait > 0 THEN wait + d ELSE 0
             IN  /\ time_since_last_request' = Sat(time_since_last_request + passed)
                 /\ sinceIssue' = Sat(sinceIssue + passed)
                 /\ gov' = [slept |-> TRUE, wait_time |-> wait]
                 /\ hist' = [hist EXCEPT !.since429 = Elapse429(@, passed)]
    /\ UNCHANGED <<inputFile, outputFile, self, args, env, flags, runsLeft, world, papers, idx,
                   end_idx, success_count, failed_count, skipped_count, pc, saveRet, call,
                   result, acquired, loaded, cls, prev>>

\* AfterAcquire with a bug: the governor never lets the caller through.
AfterAcquireSpins(site) == site

\* Where _wait_for_rate_limit returns to (lines 55, 119, 127, 157, 191).
AfterAcquire(site) ==
    CASE site = "acq_search" -> "req_search"
      [] site = "acq_match" -> "acq_detail"
      [] site = "acq_detail" -> "req_detail"
      [] site = "acq_author" -> "req_author"

\* Line 41: the stamp.
GovernorStamp ==
    /\ pc \in AcquireSites
    /\ gov.slept
    /\ time_since_last_request' = 0
    /\ gov' = GovIdle
    /\ acquired' = TRUE
    /\ pc' = AfterAcquire(pc)
    /\ UNCHANGED <<inputFile, outputFile, self, args, env, flags, runsLeft, world, papers, idx,
                   end_idx, success_count, failed_count, skipped_count, saveRet, call,
                   result, sinceIssue, loaded, cls, hist, prev>>

(***************************************************************************)
(* The API calls: search_paper, get_paper_details, get_author_affiliations.*)
(***************************************************************************)
\* The responses the API may give to a request: any of the endpoint's, or
\* the one of world when the API is a fixed function of the request.
Allowed(answer, all) == IF env.fixed THEN {answer} ELSE all

\* Cooldown with a bug: a 429 is answered without the sleep.
CooldownNone(resp) == 0

\* time.sleep(5) after a 429 (lines 132, 172, 247).
Cooldown(resp) == IF resp.status = HTTP_RATE_LIMITED THEN COOLDOWN ELSE 0

\* AfterEnrich with a bug: no except clause, the exception leaves enrich_csv.
AfterEnrichNoExcept(r) == IF r.raised THEN "crashed" ELSE "merge"

\* try/except of enrich_csv, lines 475 and 498: enrich_paper returning and
\* enrich_paper raising both continue in enrich_csv.
AfterEnrich(r) == "merge"

\* The clocks after a request answered with resp after d: the answer is
\* received, then the handler sleeps when it is a 429.
AfterAnswer(resp, d) ==
    /\ time_since_last_request' = Sat(time_since_last_request + d + Cooldown(resp))
    /\ sinceIssue' = Sat(d + Cooldown(resp))
    /\ hist' = [hist EXCEPT
                  !.billed = @ \cup {idx},
                  !.since429 = IF resp.status = HTTP_RATE_LIMITED
                               THEN Elapse429(0, Cooldown(resp))
                               ELSE Elapse429(@, d)]

\* CallFailed with a bug: a failed call raises out of search_paper.
CallFailedRaises == [DefaultResult EXCEPT !.raised = TRUE]

\* A failed search or detail call: search_paper returns None (lines 133, 136,
\* 140, 143, 248, 251, 254, 257) and enrich_paper returns its defaults.
CallFailed == EnrichPaper(NotFound)

\* AfterCallFailed with a bug: the failed request is issued again.
AfterCallFailedRetry(site) == IF site = "req_search" THEN "acq_search" ELSE "acq_detail"

\* After a failed call enrich_paper returns to enrich_csv: no retry.
AfterCallFailed(site) == AfterEnrich(CallFailed)

\* The search call fails: no 200, or a body the scan cannot read.
SearchFails(resp) == resp.status # HTTP_OK \/ ScanRaises(resp.body)

\* The detail call fails: no 200, or a body that is not JSON.
DetailFails(resp) == resp.status # HTTP_OK \/ ~resp.body.json

\* search_paper, lines 83-145.
SearchRequest ==
    /\ pc = "req_search"
    /\ \E resp \in Allowed(world.search[Query(call.title)], SearchResponses), d \in Delays :
         LET pid == IF SearchFails(resp) THEN None
                    ELSE SelectPaperId(call.title, resp.body)
             sent == Append(call.requests, Req("search", resp.status, 0, SearchFails(resp)))
         IN  /\ AfterAnswer(resp, d)
             /\ IF SearchFails(resp)
                THEN /\ result' = CallFailed
                     /\ pc' = AfterCallFailed(pc)
                     /\ call' = [call EXCEPT !.query = Query(call.title), !.requests = sent]
                ELSE IF pid = None
                THEN /\ result' = EnrichPaper(NotFound)
                     /\ pc' = AfterEnrich(EnrichPaper(NotFound))
                     /\ call' = [call EXCEPT !.query = Query(call.title), !.requests = sent]
                ELSE /\ result' = result
                     /\ pc' = "acq_match"
                     /\ call' = [call EXCEPT !.query = Query(call.title), !.paper_id = pid,
                                             !.requests = sent]
    /\ acquired' = FALSE
    /\ UNCHANGED <<inputFile, outputFile, self, args, env, flags, runsLeft, world, papers, idx, end_idx,
                   success_count, failed_count, skipped_count, saveRet, gov, loaded, cls,
                   prev>>

\* get_paper_details, lines 199-258, up to the affiliation loop.
DetailRequest ==
    /\ pc = "req_detail"
    /\ \E resp \in Allowed(world.detail[call.paper_id], DetailResponses), d \in Delays :
         LET sent == Append(call.requests, Req("detail", resp.status, 0, DetailFails(resp)))
         IN  /\ AfterAnswer(resp, d)
             /\ IF DetailFails(resp)
                THEN /\ result' = CallFailed
                     /\ pc' = AfterCallFailed(pc)
                     /\ call' = [call EXCEPT !.requests = sent]
                ELSE IF self.get_affiliations /\ resp.body.has_authors
                THEN /\ result' = result
                     /\ pc' = "authors"
                     /\ call' = [call EXCEPT !.paper_data = PaperData(resp.body),
                                             !.aidx = 0,
                                             !.authors_with_affiliations = <<>>,
                                             !.requests = sent]
                ELSE /\ result' = EnrichPaper(PaperData(resp.body))
                     /\ pc' = AfterEnrich(EnrichPaper(PaperData(resp.body)))
                     /\ call' = [call EXCEPT !.paper_data = PaperData(resp.body),
                                             !.requests = sent]
    /\ acquired' = FALSE
    /\ UNCHANGED <<inputFile, outputFile, self, args, env, flags, runsLeft, world, papers, idx, end_idx,
                   success_count, failed_count, skipped_count, saveRet, gov, loaded, cls,
                   prev>>

\* EnterAuthorLookup with a bug: the request is sent without the governor.
EnterAuthorLookupUngoverned == "req_author"

\* get_author_affiliations is entered through the governor (line 157).
EnterAuthorLookup == "acq_author"

\* AuthorEntry with a bug: every author is marked as looked up.
AuthorEntryAlwaysFetched(name, affiliations, fetched) ==
    [name |-> name, affiliations |-> affiliations, has_affiliations |-> TRUE]

\* An entry of authors_with_affiliations (lines 223-240).
AuthorEntry(name, affiliations, fetched) ==
    [name |-> name, affiliations |-> affiliations, has_affiliations |-> fetched]

\* get_paper_details, lines 215-244: one turn of the loop over the authors,
\* and the return once the list is exhausted.
AuthorStep ==
    /\ pc = "authors"
    /\ LET authors_list == call.paper_data.authors
           done == call.aidx >= Len(authors_list)
           author == authors_list[call.aidx + 1]
           info == [call.paper_data EXCEPT
                       !.has_awa = TRUE,
                       !.authorsWithAffiliations = call.authors_with_affiliations]
       IN  IF done
           THEN /\ result' = EnrichPaper(info)
                /\ pc' = AfterEnrich(EnrichPaper(info))
                /\ call' = call
           ELSE IF call.aidx < AuthorsToProcess(self.max_authors_for_affiliations,
                                                Len(authors_list))
           THEN IF Truthy(author.authorId)
                THEN /\ pc' = EnterAuthorLookup
                     /\ UNCHANGED <<result, call>>
                ELSE /\ call' = [call EXCEPT
                                   !.authors_with_affiliations =
                                       Append(@, AuthorEntry(author.name, <<>>, TRUE)),
                                   !.aidx = @ + 1]
                     /\ UNCHANGED <<result, pc>>
           ELSE /\ call' = [call EXCEPT
                              !.authors_with_affiliations =
                                  Append(@, AuthorEntry(author.name, <<>>, FALSE)),
                              !.aidx = @ + 1]
                /\ UNCHANGED <<result, pc>>
    /\ UNCHANGED <<inputFile, outputFile, self, args, env, flags, runsLeft, world, papers, idx,
                   end_idx, success_count, failed_count, skipped_count, saveRet,
                   time_since_last_request, gov, sinceIssue, acquired, loaded, cls, hist,
                   prev>>

\* AfterLookup with a bug: a failed lookup ends the paper's enrichment.
AfterLookupAborts(resp) == IF resp.status # HTTP_OK THEN "merge" ELSE "authors"

\* get_author_affiliations returns into the loop over the authors, whatever
\* the answer was (lines 167-178).
AfterLookup(resp) == "authors"

\* get_author_affiliations, lines 165-178, and the append at lines 223-227.
AuthorRequest ==
    /\ pc = "req_author"
    /\ LET author == call.paper_data.authors[call.aidx + 1]
       IN  \E resp \in Allowed(world.author[author.authorId], AuthorResponses), d \in Delays :
             /\ AfterAnswer(resp, d)
             /\ call' = [call EXCEPT
                           !.authors_with_affiliations =
                               Append(@, AuthorEntry(author.name,
                                                     IF resp.status = HTTP_OK THEN resp.body
                                                     ELSE <<>>,
                                                     TRUE)),
                           !.aidx = @ + 1,
                           !.requests = Append(@, Req("author", resp.status, call.aidx,
                                                      resp.status # HTTP_OK))]
             /\ pc' = AfterLookup(resp)
    /\ acquired' = FALSE
    /\ UNCHANGED <<inputFile, outputFile, self, args, env, flags, runsLeft, world, papers, idx, end_idx,
                   success_count, failed_count, skipped_count, saveRet, result, gov, loaded,
                   cls, prev>>

(***************************************************************************)
(* The merge (lines 479-503), one assignment at a time.                    *)
(***************************************************************************)
MergeAbstract ==
    /\ pc = "merge"
    /\ papers' = [papers EXCEPT ![idx + 1].abstract = MergeTarget(result).abstract]
    /\ hist' = [hist EXCEPT !.merging = <<MergeTarget(result).abstract,
                                          MergeTarget(result).citationCount,
                                          MergeTarget(result).affiliations>>]
    /\ pc' = "merge_count"
    /\ UNCHANGED <<inputFile, outputFile, self, args, env, flags, runsLeft, world, idx, end_idx,
                   success_count, failed_count, skipped_count, saveRet, call, result,
                   time_since_last_request, gov, sinceIssue, acquired, loaded, cls, prev>>

MergeCitation ==
    /\ pc = "merge_count"
    /\ papers' = [papers EXCEPT ![idx + 1].citationCount = MergeTarget(result).citationCount]
    /\ pc' = "merge_aff"
    /\ UNCHANGED <<inputFile, outputFile, self, args, env, flags, runsLeft, world, idx, end_idx,
                   success_count, failed_count, skipped_count, saveRet, call, result,
                   time_since_last_request, gov, sinceIssue, acquired, loaded, cls, hist,
                   prev>>

MergeAffiliations ==
    /\ pc = "merge_aff"
    /\ papers' = [papers EXCEPT ![idx + 1].affiliations = MergeTarget(result).affiliations]
    /\ cls' = [cls EXCEPT ![idx + 1] = MergeTarget(result).outcome]
    /\ success_count' = success_count
                          + (IF MergeTarget(result).outcome = "ENRICHED" THEN 1 ELSE 0)
    /\ failed_count' = failed_count
                          + (IF MergeTarget(result).outcome = "FAILED" THEN 1 ELSE 0)
    /\ hist' = [hist EXCEPT !.raisedAt = IF result.raised THEN @ \cup {idx} ELSE @,
                            !.merging = <<>>]
    /\ pc' = "checkpoint"
    /\ UNCHANGED <<inputFile, outputFile, self, args, env, flags, runsLeft, world, idx, end_idx,
                   skipped_count, saveRet, call, result, time_since_last_request, gov,
                   sinceIssue, acquired, loaded, prev>>

(***************************************************************************)
(* Checkpoints (lines 505-519) and _save_progress (lines 317-342).         *)
(***************************************************************************)
\* The end of a loop turn: on to the next index.
Advance ==
    /\ idx' = idx + 1
    /\ pc' = "loop"
    /\ saveRet' = "none"
    /\ call' = NoCall
    /\ result' = DefaultResult

CallSave(ret) ==
    /\ pc' = "save_open"
    /\ saveRet' = ret
    /\ UNCHANGED <<idx, call, result>>

\* CheckLast with a bug: the loop turn ends without moving to the next index.
CheckLastStays ==
    /\ pc' = "loop"
    /\ saveRet' = "none"
    /\ call' = NoCall
    /\ result' = DefaultResult
    /\ idx' = idx

\* Lines 514-517.
CheckLast == IF idx + 1 = end_idx THEN CallSave("advance") ELSE Advance

\* Lines 505-517.
Checkpoint ==
    /\ pc = "checkpoint"
    /\ IF (idx + 1) % SAVE_EVERY = 0 THEN CallSave("check_last") ELSE CheckLast
    /\ UNCHANGED <<inputFile, outputFile, self, args, env, flags, runsLeft, world, papers, end_idx,
                   success_count, failed_count, skipped_count, time_since_last_request, gov,
                   sinceIssue, acquired, loaded, cls, hist, prev>>

\* open(output_file, 'w') truncates the file (line 320).
SaveOpen ==
    /\ pc = "save_open"
    /\ outputFile' = Truncated
    /\ pc' = "save_header"
    /\ UNCHANGED <<inputFile, self, args, env, flags, runsLeft, world, papers, idx, end_idx,
                   success_count, failed_count, skipped_count, saveRet, call, result,
                   time_since_last_request, gov, sinceIssue, acquired, loaded, cls, hist,
                   prev>>

\* writer.writeheader() (line 322).
SaveHeader ==
    /\ pc = "save_header"
    /\ outputFile' = [outputFile EXCEPT !.header = TRUE]
    /\ pc' = "save_row"
    /\ UNCHANGED <<inputFile, self, args, env, flags, runsLeft, world, papers, idx, end_idx,
                   success_count, failed_count, skipped_count, saveRet, call, result,
                   time_since_last_request, gov, sinceIssue, acquired, loaded, cls, hist,
                   prev>>

\* One turn of the loop of lines 323-342.
SaveRow ==
    /\ pc = "save_row"
    /\ Len(outputFile.rows) < Len(papers)
    /\ outputFile' = [outputFile EXCEPT
                        !.rows = Append(@, FormatRow(papers[Len(outputFile.rows) + 1]))]
    /\ UNCHANGED <<inputFile, self, args, env, flags, runsLeft, world, papers, idx, end_idx,
                   success_count, failed_count, skipped_count, pc, saveRet, call, result,
                   time_since_last_request, gov, sinceIssue, acquired, loaded, cls, hist,
                   prev>>

\* _save_progress returns to its caller: line 507, 516, 523 or 529.
SaveReturn ==
    /\ pc = "save_row"
    /\ Len(outputFile.rows) = Len(papers)
    /\ CASE saveRet = "check_last" -> CheckLast
         [] saveRet = "advance" -> Advance
         [] saveRet = "done" ->
              /\ pc' = "done" /\ saveRet' = "none" /\ UNCHANGED <<idx, call, result>>
         [] saveRet = "cancelled" ->
              /\ pc' = "cancelled" /\ saveRet' = "none" /\ UNCHANGED <<idx, call, result>>
    /\ UNCHANGED <<inputFile, outputFile, self, args, env, flags, runsLeft, world, papers, end_idx,
                   success_count, failed_count, skipped_count, time_since_last_request, gov,
                   sinceIssue, acquired, loaded, cls, hist, prev>>

(***************************************************************************)
(* KeyboardInterrupt (lines 521-526).                                      *)
(***************************************************************************)
\* The statements inside the try block of line 428.
InTry ==
    \/ pc \in {"loop", "merge", "merge_count", "merge_aff", "checkpoint", "authors"}
    \/ pc \in AcquireSites \cup RequestSites
    \/ pc \in SavePcs /\ saveRet \in {"check_last", "advance"}

\* OnKeyboardInterrupt with a bug: the handler returns without saving.
OnKeyboardInterruptNoSave == "cancelled"

\* The handler's first statement of effect: _save_progress (line 523).
OnKeyboardInterrupt == "save_open"

\* A user interrupt.  Inside the try block the handler runs; in the handler
\* itself or in the final save of line 529 the interrupt leaves enrich_csv.
Interrupt ==
    /\ pc \notin Terminal \cup {"idle"}
    /\ IF InTry
       THEN /\ pc' = OnKeyboardInterrupt
            /\ saveRet' = IF OnKeyboardInterrupt = "save_open" THEN "cancelled" ELSE "none"
            /\ hist' = [hist EXCEPT !.interrupted = IF pc \in SavePcs THEN "write" ELSE "loop"]
       ELSE /\ pc' = "aborted"
            /\ saveRet' = "none"
            /\ hist' = [hist EXCEPT !.interrupted = "outside"]
    \* the frames of enrich_paper and of the governor are unwound; no request
    \* follows in this run
    /\ call' = NoCall
    /\ result' = DefaultResult
    /\ gov' = GovIdle
    /\ time_since_last_request' = MaxElapsed
    /\ sinceIssue' = MaxElapsed
    /\ acquired' = FALSE
    /\ UNCHANGED <<inputFile, outputFile, self, args, env, flags, runsLeft, world, papers, idx,
                   end_idx, success_count, failed_count, skipped_count, loaded, cls, prev>>

Next ==
    \/ StartRun
    \/ Visit
    \/ GovernorWait
    \/ GovernorStamp
    \/ SearchRequest
    \/ DetailRequest
    \/ AuthorStep
    \/ AuthorRequest
    \/ MergeAbstract
    \/ MergeCitation
    \/ MergeAffiliations
    \/ Checkpoint
    \/ SaveOpen
    \/ SaveHeader
    \/ SaveRow
    \/ SaveReturn
    \/ Interrupt

Spec == Init /\ [][Next]_vars

(***************************************************************************)
(* Properties.                                                             *)
(***************************************************************************)
Triple(p) == <<p.abstract, p.citationCount, p.affiliations>>
NumWith(c) == Cardinality({i \in 1..Len(cls) : cls[i] = c})
OutputReflects(ps) == outputFile = FileOf(FormatAll(ps))

\* Where the run is while it enriches record idx.
Processing ==
    \/ pc \in AcquireSites \cup RequestSites
    \/ pc \in {"authors", "merge", "merge_count", "merge_aff", "checkpoint"}
    \/ pc \in SavePcs /\ saveRet \in {"check_last", "advance"}

\* The i-th record (from 1) is in the range and the skip decision on it is made.
Decided(i) == args.start_from < i /\ (i <= idx \/ (i = idx + 1 /\ Processing))

Seeded == hist.crashAt # "prescan"
SeedSuccess == CountHasData(loaded, Min(args.start_from, Len(loaded)))

CountersAccount ==
    Seeded =>
        /\ skipped_count = NumWith("SKIPPED")
        /\ success_count = SeedSuccess + NumWith("ENRICHED")
        /\ failed_count = (args.start_from - SeedSuccess) + NumWith("FAILED")

Untouched(i) == papers[i] = loaded[i] /\ (i - 1) \notin hist.billed

\* The predicate as the specification words it.
EnrichedAsWorded(p) ==
    /\ (p.abstract # Empty \/ p.citationCount > 0)
    /\ (~self.get_affiliations \/ Truthy(p.affiliations))

\* The predicate with the abstract stripped of whitespace.
EnrichedStripped(p) ==
    /\ (Strip(p.abstract) # Empty \/ p.citationCount > 0)
    /\ (~self.get_affiliations \/ Truthy(p.affiliations))

\* C3, as worded: in the default mode a record of the range is skipped (no
\* request, no field changed, skipped_count up by one and the other counters
\* unchanged) if and only if (abstract non-empty or citationCount > 0) and
\* (affiliations off or affiliations non-empty).
C3_SkipIffNonEmpty ==
    ~args.skip_existing_abstract =>
        /\ \A i \in 1..Len(cls) :
             Decided(i) =>
                /\ (cls[i] = "SKIPPED") <=> EnrichedAsWorded(loaded[i])
                /\ cls[i] = "SKIPPED" => Untouched(i)
        /\ CountersAccount

\* C3, amended: the same with "abstract non-empty" read as "abstract non-empty
\* after stripping whitespace".
C3_SkipIffStripped ==
    ~args.skip_existing_abstract =>
        /\ \A i \in 1..Len(cls) :
             Decided(i) =>
                /\ (cls[i] = "SKIPPED") <=> EnrichedStripped(loaded[i])
                /\ cls[i] = "SKIPPED" => Untouched(i)
        /\ CountersAccount

\* A default-mode run that skipped one record and enriched another.
C3_Witness ==
    /\ pc = "done" /\ ~args.skip_existing_abstract
    /\ \E i, j \in 1..Len(cls) : cls[i] = "SKIPPED" /\ cls[j] = "ENRICHED"

\* C4, as worded: with skip-if-abstract-present on, every record of the range
\* whose abstract is non-empty is passed through unchanged and without a
\* request.
C4_StrictNonEmpty ==
    args.skip_existing_abstract =>
        \A i \in 1..Len(cls) :
            (Decided(i) /\ loaded[i].abstract # Empty) =>
                cls[i] = "SKIPPED" /\ Untouched(i)

\* C4, amended: every record of the range whose abstract is non-empty after
\* stripping whitespace is passed through unchanged and without a request.
C4_StrictStripped ==
    args.skip_existing_abstract =>
        \A i \in 1..Len(cls) :
            (Decided(i) /\ Strip(loaded[i].abstract) # Empty) =>
                cls[i] = "SKIPPED" /\ Untouched(i)

\* A strict-mode run that passed through a record with an abstract, no
\* citations and no affiliations while affiliations are fetched.
C4_Witness ==
    /\ pc = "done" /\ args.skip_existing_abstract /\ self.get_affiliations
    /\ \E i \in 1..Len(cls) :
         /\ cls[i] = "SKIPPED"
         /\ loaded[i].citationCount = 0
         /\ ~Truthy(loaded[i].affiliations)

\* C5: once enrich_paper has returned for a record, the record holds the
\* returned triple and counts as ENRICHED when the result has an abstract or
\* a positive citation count, and holds '', 0, '' and counts as FAILED
\* otherwise.
C5_MergeOutcome ==
    (pc = "checkpoint" /\ ~result.raised) =>
        /\ IF result.abstract # Empty \/ result.citationCount > 0
           THEN /\ Triple(papers[idx + 1])
                     = <<result.abstract, result.citationCount, result.affiliations>>
                /\ cls[idx + 1] = "ENRICHED"
           ELSE /\ Triple(papers[idx + 1]) = <<Empty, 0, Empty>>
                /\ cls[idx + 1] = "FAILED"
        /\ CountersAccount

\* A record that held an abstract is reset by a failed attempt whose result
\* carried affiliations.
C5_Witness ==
    /\ pc = "checkpoint" /\ ~result.raised
    /\ cls[idx + 1] = "FAILED"
    /\ Strip(loaded[idx + 1].abstract) # Empty
    /\ result.affiliations # Empty
    /\ Triple(papers[idx + 1]) = <<Empty, 0, Empty>>

\* C6: whenever enrich_csv stops after the dataset was loaded, an error
\* outside the per-record try included, the in-memory records are in the
\* output.
C6_EveryExitFlushes ==
    pc \in {"done", "cancelled", "crashed"} => OutputReflects(papers)

\* C7: after an interrupt in the processing loop, enrich_csv returns with a
\* complete output file that reflects every merge made before the interrupt.
C7_CancelFlushes == pc = "cancelled" => OutputReflects(papers)

\* The interrupt arrived during a checkpoint write, after a record was merged.
C7_Witness ==
    /\ pc = "cancelled"
    /\ hist.interrupted = "write"
    /\ \E i \in 1..Len(cls) : cls[i] = "ENRICHED"

\* The states of a run in which enrich_paper raised for record idx.
C10_State ==
    /\ result.raised => Processing
    /\ (pc = "checkpoint" /\ result.raised) =>
          /\ Triple(papers[idx + 1]) = <<Empty, 0, Empty>>
          /\ cls[idx + 1] = "FAILED"
          /\ CountersAccount
    /\ pc = "done" =>
          /\ \A i \in 1..Len(cls) :
                (args.start_from < i /\ i <= end_idx) => cls[i] # "PENDING"
          /\ idx >= end_idx
          /\ OutputReflects(papers)

\* Unless the user interrupts, the loop turn of a record that raised ends
\* with the loop at the next index.
C10_Step ==
    (idx \in hist.raisedAt /\ Processing /\ hist'.interrupted = hist.interrupted) =>
        \/ Processing' /\ idx' = idx
        \/ pc' = "loop" /\ idx' = idx + 1

\* C10: an exception raised by enrich_paper resets the record, counts it as
\* FAILED and stays inside enrich_csv; the loop goes on to the next index,
\* so a run that ends normally has classified every record of the range and
\* flushed.
C10_RecordBoundary == []C10_State /\ [][C10_Step]_vars

\* A run that ended normally after a record raised and a later one was enriched.
C10_Witness ==
    /\ pc = "done"
    /\ \E i \in hist.raisedAt : \E j \in 1..Len(cls) : j > i + 1 /\ cls[j] = "ENRICHED"

(***************************************************************************)
(* The rate governor under a clock that drifts: sleeps and requests last   *)
(* up to MaxJitter longer than their minimum, or very long.                *)
(***************************************************************************)
RateDatasets == {<<RawRow(Titles[1], Year), RawRow(Titles[3], Year)>>}
RateSettings == {s \in Settings : s.get_affiliations}
RateFlags == {f \in Flags : f.max_papers = NoCap}

InitRate == InitWith(RateDatasets, RateSettings, RateFlags, FALSE, {AnyWorld}, {MaxJitter}, 1)
SpecRate == InitRate /\ [][Next]_vars

\* C8: when the governor stamps last_request_time, at least MIN_INTERVAL has
\* passed since the stamp before it.
C8_StampsApart ==
    (pc \in AcquireSites /\ gov.slept) => time_since_last_request >= MIN_INTERVAL

\* The governor slept for the part of the interval that the request before
\* had not used up, and the sleep overran.
C8_Witness ==
    /\ pc \in AcquireSites /\ gov.slept
    /\ gov.wait_time > 0 /\ gov.wait_time < MIN_INTERVAL
    /\ time_since_last_request > MIN_INTERVAL

\* C9: every outbound request, whatever its endpoint, is sent after an
\* acquire made since the request before it, and at least MIN_INTERVAL after
\* that request was sent.
C9_SharedClock ==
    pc \in RequestSites => acquired /\ sinceIssue >= MIN_INTERVAL

\* An author lookup of the second record, a measured gap after the detail
\* request before it, in a run that sent requests for the first record too.
C9_Witness ==
    /\ pc = "req_author" /\ idx = 1
    /\ 0 \in hist.billed
    /\ sinceIssue < MaxElapsed

(***************************************************************************)
(* Two runs of enrich_csv over the same files, the API a fixed function of *)
(* the request: the second run reads papers.csv again or reads the output  *)
(* of the first.                                                           *)
(***************************************************************************)
ResumeDatasets ==
    {<<RawRow(Titles[1], Year), RawRow(Titles[3], Year)>>,
     <<FullRow(Titles[3], Year, Str("x"), Str("3"), <<"P", ":", " ", "U">>),
       FullRow(Titles[1], Year, Str("x"), Empty, Empty)>>}
ResumeFlags ==
    {[skip_existing_abstract |-> FALSE, max_papers |-> NoCap],
     [skip_existing_abstract |-> TRUE, max_papers |-> 1]}

ResumeSettings == {s \in Settings : s.max_authors_for_affiliations = NoCap}

InitResume == InitWith(ResumeDatasets, ResumeSettings, ResumeFlags, TRUE, Worlds, {0}, 2)
SpecResume == InitResume /\ [][Next]_vars

\* The second of two runs has ended, and the first ended as how.
SecondRunEnded(how) == pc \in {"done", "cancelled"} /\ prev.pc = how

\* C1: run 1 over papers.csv is cancelled at record k; run 2 over the same
\* files with startFrom = k ends with every record below k that run 1 wrote
\* as ENRICHED still carrying that abstract, citationCount and affiliations
\* in the output.
C1_ResumeKeepsWork ==
    (/\ SecondRunEnded("cancelled")
     /\ prev.args.input = "I" /\ args.input = "I"
     /\ args.start_from = prev.idx) =>
        \A i \in 1..prev.idx :
            prev.cls[i] = "ENRICHED" =>
                /\ i <= Len(outputFile.rows)
                /\ Triple(outputFile.rows[i]) = Triple(prev.out.rows[i])

\* The second run was given the output of a completed first run and the
\* configuration of the first.
RerunOverOutput ==
    /\ pc = "done" /\ prev.pc = "done"
    /\ prev.args.input = "I" /\ args.input = "O"
    /\ args.start_from = prev.args.start_from

C13_FinalFlush ==
    /\ pc = "done" => OutputReflects(papers) /\ idx >= end_idx
    /\ (pc \in SavePcs /\ saveRet = "done") => idx >= end_idx

\* A run completed normally whose last record of the range was skipped
\* after an earlier one was enriched.
C13_Witness ==
    /\ pc = "done"
    /\ args.start_from < end_idx
    /\ cls[end_idx] = "SKIPPED"
    /\ \E i \in 1..Len(cls) : cls[i] = "ENRICHED"

\* The end of the range as the specification words it: startFrom +
\* maxRecords capped by the number of records, or that number without a cap.
WordedEnd ==
    IF args.max_papers = NoCap THEN Len(loaded)
    ELSE Min(args.start_from + args.max_papers, Len(loaded))

InWordedRange(i) == args.start_from < i /\ i <= WordedEnd

C14_State ==
    /\ \A i \in 1..Len(cls) :
          ~InWordedRange(i) => cls[i] = "PENDING" /\ Untouched(i)
    /\ \A i \in hist.billed : InWordedRange(i + 1)
    /\ pc = "done" => \A i \in 1..Len(cls) : InWordedRange(i) => cls[i] # "PENDING"

\* A record is visited when the loop is at it, once, and the loop only
\* moves forward.
C14_Step ==
    pc \notin Terminal \cup {"idle"} =>
        /\ idx' >= idx
        /\ \A i \in 1..Len(cls) :
              cls'[i] # cls[i] => i = idx + 1 /\ cls[i] = "PENDING"

\* C14: for every startFrom >= 0 and every maxRecords >= 0 or absent, a run
\* visits exactly the indices from startFrom to min(startFrom + maxRecords,
\* total) - 1, each once and in ascending order, and sends no request for
\* and changes no field of a record outside that range.
C14_RangeSelection == []C14_State /\ [][C14_Step]_vars

\* The run has loaded the dataset and stands at the head of its loop with
\* nothing visited yet.
LoopStarts ==
    /\ pc = "loop" /\ idx = args.start_from
    /\ \A i \in 1..Len(cls) : cls[i] = "PENDING"

PrefixCount(Test(_)) ==
    Cardinality({i \in 1..Min(args.start_from, Len(loaded)) : Test(loaded[i])})

HasDataStripped(p) == Strip(p.abstract) # Empty \/ p.citationCount > 0

\* C15, as worded: when the loop starts successCount is the number of
\* records before startFrom that satisfy the predicate that decides
\* skipping, its affiliations clause included, and failedCount is startFrom
\* minus that number.
C15_SeedSkipPredicate ==
    LoopStarts =>
        /\ success_count = PrefixCount(EnrichedStripped)
        /\ failed_count = args.start_from - PrefixCount(EnrichedStripped)

\* C15, amended: the records counted are those with an abstract that is
\* non-blank or a positive citationCount, whatever their affiliations.
C15_SeedHasData ==
    LoopStarts =>
        /\ success_count = PrefixCount(HasDataStripped)
        /\ failed_count = args.start_from - PrefixCount(HasDataStripped)

\* A run resumed behind a prefix with a record that has data but no
\* affiliations, counted as a success while affiliations are fetched, and a
\* record without data.
C15_Witness ==
    /\ LoopStarts /\ self.get_affiliations
    /\ success_count >= 1 /\ failed_count >= 1
    /\ \E i \in 1..args.start_from :
          HasDataStripped(loaded[i]) /\ ~Truthy(loaded[i].affiliations)

C16_State ==
    /\ \A i \in 1..Len(cls) : cls[i] \in {"PENDING", "SKIPPED", "ENRICHED", "FAILED"}
    /\ pc = "done" =>
          \A i \in 1..Len(cls) : (args.start_from < i /\ i <= end_idx) => cls[i] # "PENDING"

\* Within a run a record leaves PENDING for a terminal class, and a record
\* in a terminal class keeps its class and its fields.
C16_Step ==
    pc \notin Terminal \cup {"idle"} =>
        \A i \in 1..Len(cls) :
            IF cls[i] = "PENDING"
            THEN cls'[i] \in {"PENDING", "SKIPPED", "ENRICHED", "FAILED"}
            ELSE cls'[i] = cls[i] /\ papers'[i] = papers[i]

\* C16: within one run every record of the range moves once from PENDING to
\* one of SKIPPED, ENRICHED or FAILED, and afterwards neither its class nor
\* any of its fields changes in that run.
C16_RecordStateMachine == []C16_State /\ [][C16_Step]_vars

\* A run completed normally after a record failed and a later one was
\* enriched; both were flushed in between and at the end.
C16_Witness ==
    /\ pc = "done"
    /\ \E i, j \in 1..Len(cls) : i < j /\ cls[i] = "FAILED" /\ cls[j] = "ENRICHED"

(***************************************************************************)
(* A dataset longer than the checkpoint interval, the API a fixed function *)
(* that enriches every record it is asked about.                           *)
(***************************************************************************)
PlainRow == FullRow(Titles[1], Year, Empty, Empty, Empty)
DoneRow == FullRow(Titles[1], Year, Str("x"), Str("3"), <<"P", ":", " ", "U">>)

\* No record enriched yet; or none but the record at the checkpoint interval.
LongDatasets ==
    {[i \in 1..LongPapers |-> PlainRow],
     [i \in 1..LongPapers |-> IF i = SAVE_EVERY THEN DoneRow ELSE PlainRow]}
LongSettings == {s \in Settings : s.get_affiliations /\ s.max_authors_for_affiliations = NoCap}
LongFlags == {[skip_existing_abstract |-> FALSE, max_papers |-> NoCap]}
LongWorlds ==
    {w \in Worlds : /\ \A i \in 1..3 : w.search[Titles[i]].status = HTTP_OK
                    /\ w.detail[Str("p")].body.citationCount = Str("5")
                    /\ w.author[Str("1")].status = HTTP_OK}

InitLong == InitWith(LongDatasets, LongSettings, LongFlags, TRUE, LongWorlds, {0}, 1)
SpecLong == InitLong /\ [][Next]_vars

\* The i-th record as it is in memory is in the output file.
Reflected(i) ==
    /\ outputFile.header
    /\ i <= Len(outputFile.rows)
    /\ outputFile.rows[i] = FormatRow(papers[i])

Unflushed ==
    Cardinality({i \in 1..Len(cls) : cls[i] \in {"ENRICHED", "FAILED"} /\ ~Reflected(i)})

\* C11: between two records of a run, at most SAVE_EVERY - 1 records that
\* reached ENRICHED or FAILED are missing from the output; a run started at
\* index 0 that has passed record SAVE_EVERY has the first SAVE_EVERY
\* records in the output.
C11_StalenessBound ==
    pc = "loop" =>
        /\ Unflushed <= SAVE_EVERY - 1
        /\ (args.start_from = 0 /\ idx >= SAVE_EVERY) =>
              \A i \in 1..SAVE_EVERY : Reflected(i)

\* C12: each time the number of records processed in the run reaches a
\* multiple of SAVE_EVERY, whatever startFrom is and however that record
\* ended, the record sequence has been flushed to the output.
C12_CheckpointCadence ==
    (/\ pc = "loop"
     /\ idx > args.start_from
     /\ (idx - args.start_from) % SAVE_EVERY = 0) =>
        OutputReflects(papers)

(***************************************************************************)
(* The match resolver on every candidate list of up to MaxCands            *)
(* candidates, each with an identifier and a title, for the title "ab".    *)
(***************************************************************************)
CandTitles ==
    {<<"A", "B">>, <<"a", "b", " ">>, <<"a", "b", "c">>, <<"x", "a", "b">>,
     <<"b">>, <<"z">>, Empty}

\* The k-th candidate's identifier is the digit k.
MatchLists ==
    UNION {{[k \in 1..n |-> Cand(Str(Digits[k + 1]), f[k])] : f \in [1..n -> CandTitles]} :
              n \in 0..MaxCands}

MatchDetail ==
    [id \in {Str(Digits[k + 1]) : k \in 1..(MaxCands + 1)} |->
        Resp(HTTP_OK, Body(Str("y"), Str("5"), <<Author(Str("1"), Str("P"))>>))]
MatchAuthor == [id \in {Str("1")} |-> Resp(HTTP_OK, <<Str("U")>>)]

MatchWorlds ==
    {[search |-> SearchAll(Resp(HTTP_OK, c)), detail |-> MatchDetail, author |-> MatchAuthor] :
        c \in MatchLists}
MatchDatasets == {<<RawRow(Titles[3], Year)>>}

InitMatch == InitWith(MatchDatasets, LongSettings, LongFlags, TRUE, MatchWorlds, {0}, 1)
SpecMatch == InitMatch /\ [][Next]_vars

\* The candidate list the search answered with for the record in hand, and
\* the state in which the resolver has just chosen a candidate.
FoundCands == world.search[Query(call.title)].body
Resolved == pc = "acq_match"
Selected(k) == call.paper_id = FoundCands[k].paperId

\* Two readings of "case-insensitive": lower-cased, and lower-cased after
\* stripping the surrounding whitespace.
Lowered(t) == Lower(t)
Normalised(t) == Strip(Lower(t))

ExactBy(N(_), k) == N(FoundCands[k].title) = N(call.title)
SubstringBy(N(_), k) ==
    \/ Contains(N(call.title), N(FoundCands[k].title))
    \/ Contains(N(FoundCands[k].title), N(call.title))
RatioNum(N(_), k) == Min(Len(N(call.title)), Len(N(FoundCands[k].title)))
RatioDen(N(_), k) == Max(Len(N(call.title)), Len(N(FoundCands[k].title)))
\* ratio of k > ratio of j, and ratio of k >= ratio of j
RatioGreater(N(_), k, j) == RatioNum(N, k) * RatioDen(N, j) > RatioNum(N, j) * RatioDen(N, k)
RatioAtLeast(N(_), k, j) == RatioNum(N, k) * RatioDen(N, j) >= RatioNum(N, j) * RatioDen(N, k)
Positions == 1..Len(FoundCands)

\* C17, as worded: when some candidate's title equals the query title up to
\* case, the first such candidate is the one selected.
C17_ExactLowered ==
    Resolved =>
        \A k \in Positions :
            (ExactBy(Lowered, k) /\ \A j \in 1..(k - 1) : ~ExactBy(Lowered, j)) => Selected(k)

\* C17, amended: when some candidate's title equals the query title up to
\* case and surrounding whitespace, the first such candidate is the one
\* selected, whatever precedes it.
C17_ExactNormalised ==
    Resolved =>
        \A k \in Positions :
            (ExactBy(Normalised, k) /\ \A j \in 1..(k - 1) : ~ExactBy(Normalised, j))
                => Selected(k)

\* The exact match is not first and a substring match precedes it.
C17_Witness ==
    /\ Resolved
    /\ \E k \in Positions :
          /\ k > 1 /\ Selected(k) /\ ExactBy(Normalised, k)
          /\ SubstringBy(Normalised, 1) /\ ~ExactBy(Normalised, 1)

\* The substring candidate of the largest ratio, the first among equals.
IsBestOf(N(_), Among(_), k) ==
    /\ Among(k)
    /\ \A j \in Positions :
          Among(j) => /\ RatioAtLeast(N, k, j)
                      /\ j < k => RatioGreater(N, k, j)

SubLowered(k) == SubstringBy(Lowered, k)
SubPositive(k) == SubstringBy(Normalised, k) /\ RatioNum(Normalised, k) > 0

MatchLowered(k) == ExactBy(Lowered, k) \/ SubstringBy(Lowered, k)
MatchPositive(k) == ExactBy(Normalised, k) \/ SubPositive(k)

\* C19, as worded: the first-ranked candidate is taken as a fallback
\* exactly when no candidate is an exact or a substring match; when there
\* is such a match, the candidate selected is a match.
C19_FallbackLowered ==
    Resolved =>
        IF \E k \in Positions : MatchLowered(k)
        THEN \E k \in Positions : Selected(k) /\ MatchLowered(k)
        ELSE Selected(1)

\* A search that answered with candidates is followed by the choice of one.
C19_Step ==
    (pc = "req_search" /\ FoundCands # <<>> /\ hist'.interrupted = hist.interrupted)
        => Resolved'

C19_State ==
    Resolved =>
        IF \E k \in Positions : MatchPositive(k)
        THEN \E k \in Positions : Selected(k) /\ MatchPositive(k)
        ELSE Selected(1)

\* C19, amended: a match is an exact match or a substring match of a ratio
\* above zero, titles compared lower-cased and stripped.  Of a non-empty
\* list a candidate is always selected: a match when there is one, the
\* first-ranked candidate otherwise.
C19_FallbackNormalised == []C19_State /\ [][C19_Step]_vars

\* The first-ranked candidate is taken although the second has an empty
\* title, which every title contains.
C19_Witness ==
    /\ Resolved
    /\ Len(FoundCands) >= 2
    /\ FoundCands[2].title = Empty
    /\ \A k \in Positions : ~MatchPositive(k)
    /\ Selected(1)

\* The search for this record was answered with 200 and an empty list.
NothingFound ==
    /\ idx < Len(papers)
    /\ world.search[Query(Strip(papers[idx + 1].title))] = Resp(HTTP_OK, <<>>)

C20_State ==
    (NothingFound /\ hist.billed # {}) =>
        /\ pc \notin {"acq_match", "acq_detail", "req_detail", "authors", "acq_author",
                      "req_author", "crashed"}
        /\ ~result.raised
        /\ pc = "checkpoint" =>
              /\ cls[idx + 1] = "FAILED"
              /\ Triple(papers[idx + 1]) = <<Empty, 0, Empty>>

C20_Step ==
    (pc = "req_search" /\ NothingFound /\ hist'.interrupted = hist.interrupted) =>
        /\ pc' = "merge"
        /\ result' = [raised |-> FALSE, abstract |-> Empty, citationCount |-> 0,
                      affiliations |-> Empty]

\* C20: a search answered with 200 and no candidate makes the resolver
\* report 'not found' without raising; no paper-detail or author-detail
\* request follows, and the record ends FAILED with '', 0, ''.
C20_NoMatch == []C20_State /\ [][C20_Step]_vars

\* A record ends FAILED at the checkpoint after a search answered with an
\* empty list, the only request sent for it.
C20_Witness ==
    /\ NothingFound
    /\ pc = "checkpoint"
    /\ cls[idx + 1] = "FAILED"
    /\ hist.billed = {idx}

(***************************************************************************)
(* Failures of the calls, retries and the cooldown.                        *)
(***************************************************************************)
\* enrich_paper has returned for record idx and the loop turn is not over.
Returned ==
    \/ pc \in {"merge", "merge_count", "merge_aff", "checkpoint"}
    \/ pc \in SavePcs /\ saveRet \in {"check_last", "advance"}

RequestsTo(site) == {k \in 1..Len(call.requests) : call.requests[k].site = site}

\* The search or the paper-detail call of record idx failed.
ResolverFailed ==
    \E k \in RequestsTo("search") \cup RequestsTo("detail") : call.requests[k].failed

C21_State ==
    /\ (Returned /\ ResolverFailed) =>
          /\ ~call.paper_data.found
          /\ ~result.raised
          /\ result = DefaultResult
    /\ (pc = "checkpoint" /\ ResolverFailed) =>
          /\ cls[idx + 1] = "FAILED"
          /\ Triple(papers[idx + 1]) = <<Empty, 0, Empty>>
          /\ CountersAccount

C21_Step ==
    (Returned /\ ResolverFailed /\ hist'.interrupted = hist.interrupted) =>
        \/ Returned' /\ idx' = idx
        \/ pc' = "loop" /\ idx' = idx + 1

\* C21: when the search or the paper-detail call fails (429, another status
\* that is not 200, no answer at all, a body that cannot be read) search_paper
\* returns None and raises nothing, the record is classified FAILED with its
\* three fields at their defaults, and unless the user interrupts the loop
\* goes on to the next index.
C21_FailuresNotFatal == []C21_State /\ [][C21_Step]_vars

\* The detail call of the second record got a body that is not JSON, after
\* the search of the first record had failed.
C21_Witness ==
    /\ pc = "checkpoint"
    /\ idx = 1
    /\ cls[1] = "FAILED" /\ 0 \in hist.billed /\ papers[1] = loaded[1]
    /\ \E k \in RequestsTo("detail") :
          call.requests[k].failed /\ call.requests[k].status = HTTP_OK

C22_State ==
    /\ Cardinality(RequestsTo("search")) <= 1
    /\ Cardinality(RequestsTo("detail")) <= 1
    /\ Returned => Cardinality(RequestsTo("search")) = 1
    /\ \A k \in RequestsTo("search") \cup RequestsTo("detail") :
          call.requests[k].failed => k = Len(call.requests)

\* A step that sends a request: the search is the first request for a record
\* no request was sent for in this run, the detail request follows exactly
\* one search that did not fail.
C22_Step ==
    Len(call'.requests) > Len(call.requests) =>
        LET r == call'.requests[Len(call'.requests)]
        IN  /\ idx' = idx
            /\ r.site = "search" => call.requests = <<>> /\ idx \notin hist.billed
            /\ r.site = "detail" =>
                  /\ Len(call.requests) = 1
                  /\ call.requests[1].site = "search" /\ ~call.requests[1].failed
            /\ r.site = "author" => ~ResolverFailed

\* C22: within one run, for each record that is not skipped exactly one
\* search request and at most one paper-detail request are sent, also when a
\* request is answered with 429 or fails: nothing follows a failed search or
\* detail request for the same record.
C22_NoRetry == []C22_State /\ [][C22_Step]_vars

\* A record whose detail request was answered with 429, after its search.
C22_Witness ==
    /\ pc = "checkpoint"
    /\ Len(call.requests) = 2
    /\ call.requests[2].site = "detail"
    /\ call.requests[2].status = HTTP_RATE_LIMITED
    /\ cls[idx + 1] = "FAILED"

\* C23: whenever a request to any endpoint is about to be sent, at least
\* COOLDOWN (5 seconds) have passed since the last answer with status 429
\* was received in this run.
C23_CooldownAfter429 == pc \in RequestSites => hist.since429 >= COOLDOWN

\* An author lookup about to be sent after the lookup for the author before
\* was answered with 429.
C23_Witness ==
    /\ pc = "req_author"
    /\ \E k \in RequestsTo("author") :
          /\ k = Len(call.requests)
          /\ call.requests[k].status = HTTP_RATE_LIMITED

(***************************************************************************)
(* What enrich_paper returns.                                              *)
(***************************************************************************)
Missing(v) == v = Absent \/ v = None

\* C24: enrich_paper returns abstract '' when the detail response has no
\* abstract or a null one and citationCount 0 when it has no citationCount or
\* a null one; what it returns is always a string and an integer, and a
\* record merged from it holds a string and an integer.
C24_DetailNormalised ==
    /\ IsStr(result.abstract) /\ result.citationCount \in Int
    /\ (Returned /\ call.paper_data.found /\ ~result.raised) =>
          /\ Missing(call.paper_data.abstract) => result.abstract = Empty
          /\ Missing(call.paper_data.citationCount) => result.citationCount = 0
    /\ \A i \in 1..Len(cls) :
          cls[i] \in {"ENRICHED", "FAILED"} =>
              IsStr(papers[i].abstract) /\ papers[i].citationCount \in Int

\* A record merged from a detail response with a null abstract and a null
\* citationCount, with the affiliations fetched.
C24_Witness ==
    /\ pc = "checkpoint"
    /\ call.paper_data.found
    /\ call.paper_data.abstract = None /\ call.paper_data.citationCount = None
    /\ result.affiliations # Empty
    /\ papers[idx + 1].abstract = Empty /\ papers[idx + 1].citationCount = 0

(***************************************************************************)
(* The affiliation fetch on every author list of up to MaxAuthors authors, *)
(* with and without an identifier, under every cap.                        *)
(***************************************************************************)
\* The i-th author: identifier i or none, name Ni.
AuthorAt(i, known) == Author(IF known THEN NatStr(i) ELSE None, <<"N">> \o NatStr(i))

AuthorLists ==
    UNION {{[i \in 1..n |-> AuthorAt(i, f[i])] : f \in [1..n -> BOOLEAN]} : n \in 0..MaxAuthors}

LookupAnswers ==
    {Resp(HTTP_OK, <<>>), Resp(HTTP_OK, <<Str("U"), Str("V")>>), Resp(HTTP_RATE_LIMITED, <<>>)}

AuthorsWorlds ==
    {[search |-> SearchAll(Resp(HTTP_OK, <<Cand(Str("p"), Str("a"))>>)),
      detail |-> [id \in {Str("p")} |-> Resp(HTTP_OK, Body(Str("y"), Str("5"), l))],
      author |-> a] :
        l \in AuthorLists, a \in [{NatStr(i) : i \in 1..MaxAuthors} -> LookupAnswers]}

AuthorsSettings ==
    {[get_affiliations |-> FALSE, max_authors_for_affiliations |-> NoCap]}
        \cup [get_affiliations : {TRUE},
              max_authors_for_affiliations : {NoCap} \cup 0..(MaxAuthors - 1)]
AuthorsDatasets == {<<RawRow(Titles[1], Year)>>}

InitAuthors == InitWith(AuthorsDatasets, AuthorsSettings, LongFlags, TRUE, AuthorsWorlds, {0}, 1)
SpecAuthors == InitAuthors /\ [][Next]_vars

\* The authors the detail response lists, their number, and how many of
\* them the cap lets through: min(N, M), or M without a cap.
ListedAuthors == call.paper_data.authors
UnderCap ==
    IF self.max_authors_for_affiliations = NoCap THEN Len(ListedAuthors)
    ELSE Min(self.max_authors_for_affiliations, Len(ListedAuthors))

\* enrich_paper has returned what it made of a paper with an author list.
WithAuthors ==
    /\ Returned /\ ~result.raised
    /\ self.get_affiliations
    /\ call.paper_data.found /\ call.paper_data.has_authors

\* s cut at every occurrence of sep.
RECURSIVE Split(_, _)
Split(s, sep) ==
    LET at == {k \in 1..(Len(s) - Len(sep) + 1) : SubSeq(s, k, k + Len(sep) - 1) = sep}
    IN  IF at = {} THEN <<s>>
        ELSE LET k == CHOOSE x \in at : \A y \in at : x <= y
             IN  <<SubSeq(s, 1, k - 1)>> \o Split(SubSeq(s, k + Len(sep), Len(s)), sep)

\* The segments of a serialized affiliations string; '' has none.
Segments(s) == IF s = Empty THEN <<>> ELSE Split(s, <<" ", "|", " ">>)

\* 'Name: aff1; aff2' or 'Name: (wu)' for the affiliations the lookup gave.
FetchedSegment(seg, name, affiliations) ==
    LET parts == Split(seg, <<":", " ">>)
    IN  /\ Len(parts) = 2
        /\ parts[1] = name
        /\ IF affiliations = <<>> THEN parts[2] = <<"(", "wu", ")">>
           ELSE Split(parts[2], <<";", " ">>) = affiliations

\* C25: with the affiliation fetch on, cap N and M authors in the detail
\* response, the first min(N, M) entries (all M without a cap) are marked as
\* fetched and the others not; the serialized string has M segments joined
\* by ' | ' in the order of the response, the first min(N, M) of the form
\* 'Name: aff1; aff2' or 'Name: (wu)', the others the bare name.
C25_CapAndSerialization ==
    WithAuthors =>
        LET awa == call.authors_with_affiliations
            segs == Segments(result.affiliations)
        IN  /\ Len(awa) = Len(ListedAuthors)
            /\ Len(segs) = Len(ListedAuthors)
            /\ \A i \in 1..Len(ListedAuthors) :
                  /\ awa[i].name = ListedAuthors[i].name
                  /\ awa[i].has_affiliations <=> i <= UnderCap
                  /\ IF i <= UnderCap
                     THEN FetchedSegment(segs[i], ListedAuthors[i].name, awa[i].affiliations)
                     ELSE segs[i] = ListedAuthors[i].name

\* Cap 2 on three authors: the first with two affiliations, the second with
\* none, the third not looked up.
C25_Witness ==
    /\ WithAuthors /\ pc = "checkpoint"
    /\ self.max_authors_for_affiliations = 2
    /\ Len(ListedAuthors) = 3
    /\ result.affiliations =
          <<"N", "1", ":", " ", "U", ";", " ", "V", " ", "|", " ",
            "N", "2", ":", " ", "(", "wu", ")", " ", "|", " ", "N", "3">>
    /\ papers[idx + 1].affiliations = result.affiliations

\* The author lookups sent for the paper in hand that were for position p
\* (from 0) of the author list.
LookupsAt(p) == {k \in RequestsTo("author") : call.requests[k].pos = p}

\* C26: for a paper with M authors and cap N at most min(N, M) author
\* lookups are sent (at most M without a cap), at most one per author, each
\* for an author before position min(N, M); once the list is done every
\* such author with an identifier has had exactly one.  With the
\* affiliation fetch off no author lookup is sent.
C26_BoundedLookups ==
    /\ ~self.get_affiliations => RequestsTo("author") = {}
    /\ Cardinality(RequestsTo("author")) <= UnderCap
    /\ \A k \in RequestsTo("author") :
          /\ call.requests[k].pos < UnderCap
          /\ LookupsAt(call.requests[k].pos) = {k}
    /\ WithAuthors =>
          \A i \in 1..UnderCap :
              Cardinality(LookupsAt(i - 1))
                  = IF Truthy(ListedAuthors[i].authorId) THEN 1 ELSE 0

\* Cap 1 on three authors with identifiers: one lookup, for the first.
C26_Witness ==
    /\ WithAuthors
    /\ self.max_authors_for_affiliations = 1
    /\ Len(ListedAuthors) = 3
    /\ \A i \in 1..3 : Truthy(ListedAuthors[i].authorId)
    /\ Cardinality(RequestsTo("author")) = 1
    /\ Len(call.authors_with_affiliations) = 3

\* What the record in hand is merged to when the author lookups are left
\* out of account: the outcome for the detail response alone.
WithoutLookups == MergeTarget(EnrichPaper(call.paper_data))

\* C27: an author lookup that fails (429, another status that is not 200,
\* no answer) gives that author an empty affiliation list; the lookups of
\* the other authors under the cap are sent all the same, and the record's
\* abstract, citationCount and class are those the detail response alone
\* determines.
C27_LookupsFailAlone ==
    /\ \A k \in RequestsTo("author") :
          call.requests[k].failed =>
              LET entry == call.authors_with_affiliations[call.requests[k].pos + 1]
              IN  entry.affiliations = <<>> /\ entry.has_affiliations
    /\ WithAuthors =>
          \A i \in 1..UnderCap :
              Truthy(ListedAuthors[i].authorId) => LookupsAt(i - 1) # {}
    /\ (pc = "checkpoint" /\ self.get_affiliations /\ call.paper_data.found
            /\ call.paper_data.has_authors) =>
          /\ cls[idx + 1] = WithoutLookups.outcome
          /\ papers[idx + 1].abstract = WithoutLookups.abstract
          /\ papers[idx + 1].citationCount = WithoutLookups.citationCount

\* The lookup of the first author got no answer, the second author's was
\* sent and gave affiliations, and the record is ENRICHED.
C27_Witness ==
    /\ pc = "checkpoint"
    /\ Len(call.requests) = 4
    /\ call.requests[3].site = "author" /\ call.requests[3].status = 0
    /\ call.requests[4].site = "author" /\ ~call.requests[4].failed
    /\ call.authors_with_affiliations[2].affiliations # <<>>
    /\ cls[idx + 1] = "ENRICHED"
    /\ papers[idx + 1].abstract = call.paper_data.abstract

(***************************************************************************)
(* The citationCount cell: inputs with every kind of cell, an API that     *)
(* answers with a count of either sign or fails.                           *)
(***************************************************************************)
CountCells ==
    {Empty, Str(" "), Str("n"), None, <<"-", "3">>, <<"+", "2">>, <<" ", "4">>, Str("7")}

\* Rows with and without an abstract; a null cell is the cell of a short
\* row, whose later cells are null as well.  The last has no such column.
CountRows(title) ==
    {FullRow(title, Year, a, c, IF c = None THEN None ELSE Empty) :
        a \in {Empty, Str("x")}, c \in CountCells} \cup {RawRow(title, Year)}

CountDatasets == RowSeqs(CountRows, 1..MaxPapers)
CountSettings == {s \in Settings : s.max_authors_for_affiliations = NoCap}
CountFlags == {f \in Flags : f.max_papers = NoCap}
CountWorlds ==
    {[search |-> SearchAll(Resp(HTTP_OK, <<Cand(Str("p"), Str("a"))>>)),
      detail |-> [id \in {Str("p")} |-> r],
      author |-> MatchAuthor] :
        r \in {Resp(HTTP_OK, Body(Str("y"), Str("5"), <<Author(Str("1"), Str("P"))>>)),
               Resp(HTTP_OK, Body(Empty, <<"-", "2">>, <<>>)),
               Resp(HTTP_OK, Body(Str("y"), <<"-", "2">>, <<>>)),
               Resp(500, BodyNoAuthors(Absent, Absent))}}

InitCounts == InitWith(CountDatasets, CountSettings, CountFlags, TRUE, CountWorlds, {0}, 1)
SpecCounts == InitCounts /\ [][Next]_vars

\* The citationCount cell of the i-th input row.
CountCell(i) == ReadRows(args.input)[i].citationCount

\* A string that reads as an integer: digits after an optional sign.
Numeric(t) ==
    LET body == IF t # <<>> /\ Head(t) \in {"-", "+"} THEN Tail(t) ELSE t
    IN  body # <<>> /\ \A k \in 1..Len(body) : IsDigit(body[k])

\* A cell that is missing, null, empty, blank or not a number.
Malformed(c) == Missing(c) \/ ~Numeric(Strip(c))

\* C28: a citationCount cell that is empty, blank, not a number, null or
\* missing is loaded as 0 and written as 0 by every flush for as long as
\* the record is as loaded, and neither the load nor a flush raises.
C28_CoercionTotal ==
    /\ pc # "crashed"
    /\ \A i \in 1..Len(loaded) :
          Malformed(CountCell(i)) =>
              /\ loaded[i].citationCount = 0
              /\ (Untouched(i) /\ i <= Len(outputFile.rows)) =>
                    outputFile.rows[i].citationCount = Str("0")

\* A finished run whose output has the 0 of a skipped record whose cell was
\* not a number and the 0 of one whose cell was null.
C28_Witness ==
    /\ pc = "done"
    /\ Len(loaded) = 2
    /\ CountCell(1) = Str("n") /\ CountCell(2) = None
    /\ cls = <<"SKIPPED", "SKIPPED">>
    /\ outputFile.rows[1].citationCount = Str("0")
    /\ outputFile.rows[2].citationCount = Str("0")

\* C29: in every output written by a flush the citationCount of every record
\* is a non-negative integer, whatever the input cell held and whatever the
\* API returned.
C29_NonNegativeOutput ==
    \A i \in 1..Len(outputFile.rows) :
        LET c == outputFile.rows[i].citationCount
        IN  c # <<>> /\ \A k \in 1..Len(c) : IsDigit(c[k])

(***************************************************************************)
(* Inputs with a column beyond the seven.                                  *)
(***************************************************************************)
ExtraRow(title) == [RawRow(title, Year) EXCEPT !.extra = Str("k")]
ExtraDatasets == {<<ExtraRow(Titles[1])>>, <<ExtraRow(Titles[1]), ExtraRow(Titles[2])>>}

InitExtra == InitWith(ExtraDatasets, Settings, Flags, FALSE, {AnyWorld}, {0}, 1)
SpecExtra == InitExtra /\ [][Next]_vars

\* C30: every row a flush has written carries the extra columns of the
\* input record, with their values unchanged.
C30_ExtraColumnsSurvive ==
    \A i \in 1..Len(outputFile.rows) :
        outputFile.rows[i].extra = inputFile.rows[i].extra

(***************************************************************************)
(* The year cell, the counters and what a flush writes.                    *)
(***************************************************************************)
\* C31: whatever the year cell of a record holds (a number, another string,
\* nothing, or no cell at all), visiting the record raises nothing out of
\* the loop, and a run that ends normally has classified every record of
\* its range.
C31_YearNeverFatal ==
    /\ (pc = "crashed" /\ hist.crashAt = "visit") => ~StripRaises(papers[idx + 1].year)
    /\ pc = "done" =>
          \A i \in 1..Len(cls) : (args.start_from < i /\ i <= end_idx) => cls[i] # "PENDING"

\* C32: a record a run classifies ENRICHED satisfies (abstract non-empty or
\* citationCount > 0) and (affiliations off or affiliations non-empty) from
\* then on, and a later run with the same configuration over the output of
\* a completed run sends no request for a record that run enriched.
C32_NoRebilling ==
    /\ \A i \in 1..Len(cls) : cls[i] = "ENRICHED" => EnrichedAsWorded(papers[i])
    /\ RerunOverOutput =>
          \A i \in 1..Len(cls) : prev.cls[i] = "ENRICHED" => (i - 1) \notin hist.billed

\* C33: a record that has data when the dataset is loaded (abstract
\* non-empty or citationCount > 0) has data in every row a flush of the run
\* has written for it.
C33_NoLossOfData ==
    \A i \in 1..Len(outputFile.rows) :
        (Truthy(loaded[i].abstract) \/ loaded[i].citationCount > 0) =>
            \/ outputFile.rows[i].abstract # Empty
            \/ PyInt(outputFile.rows[i].citationCount).v > 0

(***************************************************************************)
(* Termination: every statement, sleep and request of the run ends; the    *)
(* user may or may not interrupt.                                          *)
(***************************************************************************)
Progress ==
    \/ StartRun \/ Visit \/ GovernorWait \/ GovernorStamp
    \/ SearchRequest \/ DetailRequest \/ AuthorStep \/ AuthorRequest
    \/ MergeAbstract \/ MergeCitation \/ MergeAffiliations
    \/ Checkpoint \/ SaveOpen \/ SaveHeader \/ SaveRow \/ SaveReturn

LiveDatasets == RowSeqs(RawRows, 1..MaxPapers)
InitLive == InitWith(LiveDatasets, Settings, Flags, FALSE, {AnyWorld}, {0}, 1)
SpecLive == InitLive /\ [][Next]_vars /\ WF_vars(Progress)

\* C34: when every request returns and every sleep ends, the run of
\* enrich_csv over the dataset ends, and when it ends normally every record
\* of the requested range is SKIPPED, ENRICHED or FAILED.
C34_Termination ==
    /\ <>(pc \in Terminal)
    /\ [](pc = "done" => \A i \in 1..Len(cls) : InWordedRange(i) => cls[i] # "PENDING")

\* A run over two records that ended normally, one FAILED and one ENRICHED.
C34_Witness ==
    /\ pc = "done"
    /\ args.start_from = 0 /\ args.max_papers = NoCap
    /\ cls = <<"FAILED", "ENRICHED">>

(***************************************************************************)
(* The query string, for titles around QUERY_MAX characters with and       *)
(* without punctuation at the end and at the cut.                          *)
(***************************************************************************)
Pad(n) == [k \in 1..n |-> "a"]

QueryTitles ==
    {Str("a"), <<"a", ".">>, <<"a", "?", "!">>, <<".">>, <<"a", ".", "b">>,
     Pad(QUERY_MAX), Pad(QUERY_MAX + 1),
     Pad(QUERY_MAX - 1) \o <<",", ";">>,
     Pad(QUERY_MAX) \o <<":">>,
     Pad(QUERY_MAX - 1) \o <<".", "b">>,
     Pad(QUERY_MAX - 1) \o <<".", "b", ".">>}

QueryDatasets == {<<RawRow(t, Year)>> : t \in QueryTitles}
InitQuery == InitWith(QueryDatasets, LongSettings, LongFlags, FALSE, {AnyWorld}, {0}, 1)
SpecQuery == InitQuery /\ [][Next]_vars

Punctuation == {".", ",", ";", ":", "!", "?"}
EndsInPunctuation(s) == s # <<>> /\ s[Len(s)] \in Punctuation
AllPunctuation(s) == \A k \in 1..Len(s) : s[k] \in Punctuation
SearchSent == RequestsTo("search") # {}

\* C35, as worded: the query sent is at most 200 characters long and does
\* not end in . , ; : ! or ?
C35_QueryAsWorded ==
    SearchSent => Len(call.query) <= QUERY_MAX /\ ~EndsInPunctuation(call.query)

\* C35, amended: the query sent is at most 200 characters long; it is the
\* start of the title, and what it leaves out is the title's trailing
\* punctuation or what lies beyond the first 200 characters; it ends in
\* punctuation only when it was cut at 200 characters.
C35_QuerySanitized ==
    SearchSent =>
        LET q == call.query
            rest == SubSeq(call.title, Len(q) + 1, Len(call.title))
        IN  /\ Len(q) <= QUERY_MAX
            /\ q \o rest = call.title
            /\ Len(q) < QUERY_MAX => AllPunctuation(rest) /\ ~EndsInPunctuation(q)
            /\ EndsInPunctuation(q) => Len(q) = QUERY_MAX /\ ~AllPunctuation(rest)

\* The search went out for a title of more than 200 characters that ends in
\* punctuation.
C35_Witness ==
    /\ SearchSent
    /\ Len(call.title) > QUERY_MAX /\ EndsInPunctuation(call.title)
    /\ Len(call.query) = QUERY_MAX

(***************************************************************************)
(* The enricher as run_enrich.py builds it from the command line.          *)
(***************************************************************************)
\* main, lines 47-55: the settings for --no-affiliations and --max-authors;
\* NoCap stands for an option that was not given.
Main(no_affiliations, max_authors) ==
    IF no_affiliations
    THEN [get_affiliations |-> FALSE, max_authors_for_affiliations |-> NoCap]
    ELSE IF max_authors # NoCap /\ max_authors > 0
    THEN [get_affiliations |-> TRUE, max_authors_for_affiliations |-> max_authors]
    ELSE [get_affiliations |-> TRUE, max_authors_for_affiliations |-> NoCap]

CliSettings ==
    {Main(na, n) : na \in BOOLEAN, n \in {NoCap} \cup 0..(MaxAuthors - 1)}

InitCli == InitWith(AuthorsDatasets, CliSettings, LongFlags, TRUE, AuthorsWorlds, {0}, 1)
SpecCli == InitCli /\ [][Next]_vars

\* C36: when the enricher is the one built for --max-authors N, N >= 0,
\* without --no-affiliations, at most N author lookups are sent for a paper.
C36_CapFromCommandLine ==
    \A n \in 0..MaxAuthors :
        self = Main(FALSE, n) => Cardinality(RequestsTo("author")) <= n

(***************************************************************************)
(* The three counters (lines 424-426, 441, 460, 486, 496, 502).            *)
(***************************************************************************)
Counted == success_count + failed_count + skipped_count

\* A loop turn has just ended: the loop head is reached with the next index.
TurnEnds == pc' = "loop" /\ idx' = idx + 1

C37_State == (pc = "loop" /\ Seeded) => Counted = idx

C37_Step ==
    runsLeft' = runsLeft =>
        /\ <<success_count', failed_count', skipped_count'>> \in
               {<<success_count, failed_count, skipped_count>>,
                <<success_count + 1, failed_count, skipped_count>>,
                <<success_count, failed_count + 1, skipped_count>>,
                <<success_count, failed_count, skipped_count + 1>>}
        /\ TurnEnds => Counted' = idx'

\* C37: at the end of the loop turn for index i the three counters add up to
\* i + 1, and a turn adds exactly one to exactly one of them.
C37_CounterAccounting == []C37_State /\ [][C37_Step]_vars

C37_Witness ==
    /\ pc = "loop" /\ Seeded
    /\ args.start_from = 0 /\ idx = 2
    /\ success_count = 1 /\ skipped_count = 1 /\ failed_count = 0

(***************************************************************************)
(* What a completed _save_progress has written (lines 317-342).            *)
(***************************************************************************)
\* Every row of the call is written, or the call has returned for good.
FlushComplete ==
    \/ pc = "save_row" /\ Len(outputFile.rows) = Len(papers)
    \/ pc \in {"done", "cancelled"}

IdentityOf(p) == <<p.title, p.authors, p.conference, p.year>>
IdentityCells(p) == <<Cell(p.title), Cell(p.authors), Cell(p.conference), Cell(p.year)>>

\* As worded: the identity fields written are the loaded values themselves.
C38_WholeAsWorded ==
    FlushComplete =>
        /\ Len(outputFile.rows) = Len(loaded)
        /\ \A i \in 1..Len(loaded) : IdentityOf(outputFile.rows[i]) = IdentityOf(loaded[i])

\* C38: a completed flush has written a header and one row per loaded record,
\* in input order, and the title, authors, conference and year of each row are
\* the loaded cells, a cell that the input row does not have written as ''.
C38_WholeDataset ==
    FlushComplete =>
        /\ outputFile.exists /\ outputFile.header
        /\ Len(outputFile.rows) = Len(loaded)
        /\ \A i \in 1..Len(loaded) :
              IdentityOf(outputFile.rows[i]) = IdentityCells(loaded[i])

C38_Witness ==
    /\ pc = "save_row" /\ Len(outputFile.rows) = Len(papers)
    /\ Len(loaded) = 2
    /\ cls[1] = "ENRICHED"
    /\ \E i \in 1..2 : IdentityCells(loaded[i]) # IdentityOf(loaded[i])

(***************************************************************************)
(* The merge and a user interrupt (lines 482-503, 521-526).                *)
(***************************************************************************)
WrittenTriple(row) == <<row.abstract, row.citationCount, row.affiliations>>

\* The three assignments of a merge were all made for record i.
MergeCompleted(i) == cls[i] \in {"ENRICHED", "FAILED"}

\* The triple written for a record that holds abstract a, count c and
\* affiliations f.
WrittenFor(a, c, f) == <<Cell(a), PyStr(CoerceCount(c)), Cell(f)>>

\* C39: in the output of a completed flush the triple of every record is the
\* triple it was loaded with, the reset '', 0, '', the triple of a merge that
\* was completed, or the whole triple of the merge that an interrupt cut.
C39_MergeAtomic ==
    FlushComplete =>
        \A i \in 1..Len(outputFile.rows) :
            \/ WrittenTriple(outputFile.rows[i]) = WrittenTriple(FormatRow(loaded[i]))
            \/ WrittenTriple(outputFile.rows[i]) = WrittenFor(Empty, 0, Empty)
            \/ MergeCompleted(i)
            \/ /\ hist.merging # <<>>
               /\ i = idx + 1
               /\ WrittenTriple(outputFile.rows[i])
                     = WrittenFor(hist.merging[1], hist.merging[2], hist.merging[3])

(***************************************************************************)
(* Acquires of the governor and requests (lines 55, 119, 127, 157, 191).   *)
(***************************************************************************)
\* C40: the governor is acquired once for a request, never a second time
\* before the request is sent, and when no sleep overruns and the search is
\* answered at once the detail request follows the search request by no more
\* than MIN_INTERVAL.
C40_OneAcquirePerRequest ==
    /\ pc \in AcquireSites => ~acquired
    /\ (pc = "req_detail" /\ env.jitter = 0) => sinceIssue <= MIN_INTERVAL

=============================================================================
